---- MODULE Spec2Model ----
(***************************************************************************)
(* A model of the amplitude and cross-section engine of Diracxx            *)
(* (TCrossSection.cxx).  Every process function is one action: it copies   *)
(* its particle arguments, evaluates the helicity-amplitude tensor from    *)
(* Dirac-algebra chains, contracts it with the spin-density matrices of    *)
(* the external particles, runs the consistency check, and returns the     *)
(* real part of the contraction times the kinematic factor.                *)
(*                                                                         *)
(* Numbers are exact: a complex number is a pair <<re, im>> of integers,   *)
(* a real quotient is a pair <<num, den>>.  The Dirac algebra classes      *)
(* (TDiracMatrix, TDiracSpinor) and the photon polarization vectors are    *)
(* kept symbolic: a matrix is the fingerprint of the expression that       *)
(* built it, and TDiracSpinor::ScalarProd is a fixed function DiracValue   *)
(* of fingerprints, one such function per value of the variable dirac.     *)
(***************************************************************************)
EXTENDS Integers, Sequences, FiniteSets, TLC

(***************************************************************************)
(* Bounds of the model.                                                    *)
(***************************************************************************)
NDirac == 2      \* interpretations of the Dirac-algebra library explored
NKin == 2        \* kinematic configurations offered to each process
MaxSpinorOps == 2   \* operations applied in sequence to a TPauliSpinor
Mantissa == 4       \* significant bits of LDouble_t where rounding is modelled

(***************************************************************************)
(* Exact arithmetic.                                                       *)
(***************************************************************************)
Abs(x) == IF x < 0 THEN -x ELSE x

RECURSIVE Gcd(_, _)
Gcd(a, b) == IF b = 0 THEN Abs(a) ELSE Gcd(b, a % b)

\* the quotient num/den in lowest terms with a positive denominator
Quot(num, den) ==
    LET g == Gcd(Abs(num), Abs(den))
        s == IF den < 0 THEN -1 ELSE 1
    IN  << s * (num \div g), s * (den \div g) >>

QuotMul(a, b) == Quot(a[1] * b[1], a[2] * b[2])
QuotInv(a) == Quot(a[2], a[1])
QuotAdd(a, b) ==
    LET g == Gcd(a[2], b[2])
    IN  Quot(a[1] * (b[2] \div g) + b[1] * (a[2] \div g), (a[2] \div g) * b[2])

Lcm(a, b) == (Abs(a) \div Gcd(a, b)) * Abs(b)

\* square root of a perfect square
ISqrt(n) == CHOOSE r \in 0..n : r * r = n

CZero == << 0, 0 >>
COne == << 1, 0 >>
CI == << 0, 1 >>
CAdd(a, b) == << a[1] + b[1], a[2] + b[2] >>
CSub(a, b) == << a[1] - b[1], a[2] - b[2] >>
CNeg(a) == << -a[1], -a[2] >>
CMul(a, b) == << a[1] * b[1] - a[2] * b[2], a[1] * b[2] + a[2] * b[1] >>
CConj(a) == << a[1], -a[2] >>
CScale(n, a) == << n * a[1], n * a[2] >>
CNormSqr(a) == a[1] * a[1] + a[2] * a[2]

(***************************************************************************)
(* Four-vectors (TFourVectorReal): <<E, px, py, pz>>.                      *)
(***************************************************************************)
VAdd(p, q) == [i \in 1..4 |-> p[i] + q[i]]
VSub(p, q) == [i \in 1..4 |-> p[i] - q[i]]
ScalarProd(p, q) == p[1] * q[1] - p[2] * q[2] - p[3] * q[3] - p[4] * q[4]
InvariantSqr(p) == ScalarProd(p, p)
Length(p) == ISqrt(p[2] * p[2] + p[3] * p[3] + p[4] * p[4])

(***************************************************************************)
(* The Dirac algebra library (TDiracMatrix, TDiracSpinor, TPhoton::Eps).   *)
(* A spinor or a matrix is the fingerprint, a number in 1..32749, of the   *)
(* expression that built it from momenta, masses and scalars: the same     *)
(* operations on the same operands give the same object.  A scalar that    *)
(* multiplies or divides a matrix is a quotient.  The zero matrix is       *)
(* ZeroM: a matrix times the scalar zero is zero, zero absorbs in products *)
(* and is neutral in sums, and the scalar one changes nothing.             *)
(***************************************************************************)
Mix(x, y) == 1 + ((x * 31 + y * 17 + x * y + 7) % 32749)
Mix3(x, y, z) == Mix(Mix(x, y), z)
MixV(x, v) == Mix(Mix(Mix(Mix(x, v[1]), v[2]), v[3]), v[4])

ZeroM == 0
SetStateU(mom, hel) == Mix(MixV(1, mom), hel)
SetStateV(mom, hel) == Mix(MixV(2, mom), hel)
Eps(mom, j) == Mix(MixV(3, mom), j)
EpsStar(mom, j) == Mix(MixV(4, mom), j)
Gamma(mu) == Mix(5, mu)
Sigma(mu, nu) == Mix3(6, mu, nu)
Slash(v) == MixV(7, v)
SlashEps(e) == Mix(8, e)
AddScalar(M, m) == Mix3(9, M, m)
MScale(M, q) ==
    IF M = ZeroM \/ q[1] = 0 THEN ZeroM
    ELSE IF q = << 1, 1 >> THEN M
    ELSE Mix(Mix3(10, M, q[1]), q[2])
\* the matrix M times the imaginary scalar i * q
MScaleI(M, q) ==
    IF M = ZeroM \/ q[1] = 0 THEN ZeroM ELSE Mix(Mix3(11, M, q[1]), q[2])
MNeg(M) == MScale(M, << -1, 1 >>)
MDiv(M, d) == MScale(M, Quot(1, d))
MMul(A, B) == IF A = ZeroM \/ B = ZeroM THEN ZeroM ELSE Mix3(12, A, B)
MAdd(A, B) == IF A = ZeroM THEN B ELSE IF B = ZeroM THEN A ELSE Mix3(13, A, B)
MMul3(A, B, C) == MMul(MMul(A, B), C)

\* the value of uOut.ScalarProd(M * uIn) under interpretation d
DiracValue(d, uOut, M, uIn) ==
    IF M = ZeroM THEN CZero
    ELSE LET h == Mix(Mix3(d, uOut, M), uIn)
         IN  << (h % 3) - 1, ((h \div 3) % 3) - 1 >>

(***************************************************************************)
(* Particle states (TPhoton, TLepton): momentum, mass, spin-density        *)
(* matrix.  SDM()[i][j] of the code is SDM[i + 1][j + 1] here.             *)
(***************************************************************************)
Particle(mom, mass, sdm) == [Mom |-> mom, Mass |-> mass, SDM |-> sdm]

Unit == << << COne, CZero >>, << CZero, COne >> >>
\* the density matrix |psi><psi| of the state psi = <<c0, c1>>
PureSDM(psi) ==
    << << CMul(psi[1], CConj(psi[1])), CMul(psi[1], CConj(psi[2])) >>,
       << CMul(psi[2], CConj(psi[1])), CMul(psi[2], CConj(psi[2])) >> >>
BasisState(h) == IF h = 0 THEN << COne, CZero >> ELSE << CZero, COne >>
Projector(h) == PureSDM(BasisState(h))
\* pure states that are no basis states: spin along +x, +y, -y
PureStates == { << COne, COne >>, << COne, CI >>, << COne, CNeg(CI) >> }
Mixed == << << << 2, 0 >>, << 0, 1 >> >>, << << 0, -1 >>, << 1, 0 >> >> >>
NotHermitian == << << COne, COne >>, << CZero, COne >> >>
Negative == << << CNeg(COne), CZero >>, << CZero, CZero >> >>
SDMSet ==
    { Unit, Projector(0), Projector(1), Mixed, NotHermitian, Negative }
        \cup { PureSDM(psi) : psi \in PureStates }

(***************************************************************************)
(* The helicity contraction.  Every process function runs the same nest of *)
(* loops: over an index and a barred index in {0,1} per external particle, *)
(* adding invAmp[idx] * conj(invAmp[idxbar]) times one SDM element per     *)
(* particle.  W[p][a + 1][b + 1] is the SDM element the loop body reads    *)
(* for particle p at index a and barred index b: KetFirst for SDM()[a][b], *)
(* BraFirst for SDM()[b][a].  A term whose SDM factor is zero adds zero    *)
(* and is skipped.                                                         *)
(***************************************************************************)
KetFirst(sdm) == sdm
BraFirst(sdm) == << << sdm[1][1], sdm[2][1] >>, << sdm[1][2], sdm[2][2] >> >>

\* variant: the accumulator starts at one
AmpSquaredInitOne == COne

AmpSquaredInit == CZero

\* variant: the barred amplitude is not conjugated
ContractTermNoConj(amp, idx, idxbar, w) ==
    CMul(CMul(amp[idx], amp[idxbar]), w)

\* term = invAmp[...] * conj(invAmp[...bar]) * (the SDM elements)
ContractTerm(amp, idx, idxbar, w) ==
    CMul(CMul(amp[idx], CConj(amp[idxbar])), w)

RECURSIVE ContractFromUpper(_, _, _, _, _)
\* variant: every barred loop starts at the unbarred index instead of 0
ContractFromUpper(amp, W, idx, idxbar, w) ==
    IF w = CZero THEN CZero
    ELSE IF Len(idx) = Len(W)
    THEN ContractTerm(amp, idx, idxbar, w)
    ELSE LET p == Len(idx) + 1
             T(a, b) == ContractFromUpper(amp, W, Append(idx, a),
                                          Append(idxbar, b),
                                          CMul(w, W[p][a + 1][b + 1]))
         IN  CAdd(CAdd(T(0, 0), T(0, 1)), T(1, 1))

RECURSIVE ContractFrom(_, _, _, _, _)
ContractFrom(amp, W, idx, idxbar, w) ==
    IF w = CZero THEN CZero
    ELSE IF Len(idx) = Len(W)
    THEN ContractTerm(amp, idx, idxbar, w)
    ELSE LET p == Len(idx) + 1
             T(a, b) == ContractFrom(amp, W, Append(idx, a), Append(idxbar, b),
                                     CMul(w, W[p][a + 1][b + 1]))
         IN  CAdd(CAdd(T(0, 0), T(0, 1)), CAdd(T(1, 0), T(1, 1)))

Contract(amp, W) == CAdd(AmpSquaredInit, ContractFrom(amp, W, << >>, << >>, COne))

\* the index tuples of a tensor with k binary indices
Idx(k) == [1..k -> {0, 1}]

\* an amplitude tensor held as the array of its computed entries
Stored(amp) == [den |-> amp.den, num |-> amp.num @@ << >>]

(***************************************************************************)
(* The DEBUGGING consistency check on the contracted value z = <<re, im>>  *)
(* (a common positive denominator does not change it):                     *)
(*   real(z) < 0 || fabs(z.imag()) > fabs(z / 1e8L)                        *)
(* For integers, |im| > |z| / 10^8 exactly when |re| < 10^8 * |im|.        *)
(***************************************************************************)
BadAmplitude(z) == z[1] < 0 \/ (Abs(z[1]) \div 100000000) < Abs(z[2])

(***************************************************************************)
(* The returned value.  A cross section is hbarcSqr * alphaQED^n * pi^-j   *)
(* times real(ampSquared) times a quotient of kinematic quantities; the    *)
(* record keeps the two exact factors, re = real(ampSquared) and kin = the *)
(* quotient, and stands for their product in units of the constants.       *)
(***************************************************************************)
\* variant: a value that fails the check is clamped to zero
DiffXsectClamped(ampSq, den, kin) ==
    [re |-> IF BadAmplitude(ampSq) THEN << 0, 1 >> ELSE Quot(ampSq[1], den),
     kin |-> kin]

DiffXsect(ampSq, den, kin) == [re |-> Quot(ampSq[1], den), kin |-> kin]

(***************************************************************************)
(* Inputs offered to the process functions.  Momenta are integer           *)
(* four-vectors in units where the electron mass is mElectron; the         *)
(* functions check neither momentum conservation nor the mass shell.       *)
(***************************************************************************)
mElectron == 3
P(e, x, y, z, m) == Particle(<< e, x, y, z >>, m, Unit)
KinIndex(c) == ((c - 1) % 3) + 1

WithSDM(kin, sdm) == [n \in DOMAIN kin |-> [kin[n] EXCEPT !.SDM = sdm[n]]]

\* SDM assignments: every particle in a basis state; all particles in
\* the same base state except one that takes any SDM of SDMSet; all
\* particles with the same SDM of SDMSet
SDMChoices(names) ==
    { [n \in names |-> Projector(sel[n])] : sel \in [names -> {0, 1}] }
        \cup { [n \in names |-> IF n = q THEN X ELSE base] :
                  base \in { Unit, Projector(0), Projector(1) },
                  q \in names, X \in SDMSet }
        \cup { [n \in names |-> X] : X \in SDMSet }

Range(seq) == { seq[i] : i \in 1..Len(seq) }

\* the arguments of a call are const references: the function works on
\* copies it constructs and the caller's objects stay as they were passed
\* variant: the call leaves its normalized SDM in the caller's objects
CallerObjectsOverwritten(in) ==
    [n \in DOMAIN in |-> [in[n] EXCEPT !.SDM = Unit]]

CallerObjects(in) == in

(***************************************************************************)
(* TCrossSection::Compton(gIn, eIn, gOut, eOut)                            *)
(***************************************************************************)
ComptonIndex == << "eIn", "eOut", "gIn", "gOut" >>
ComptonKin(c) ==
    LET t == << [gIn |-> P(4, 0, 0, 4, 0), eIn |-> P(3, 0, 0, 0, 3),
                 gOut |-> P(2, 0, 2, 0, 0), eOut |-> P(5, 0, 0, 4, 3)],
                [gIn |-> P(2, 2, 0, 0, 0), eIn |-> P(5, 0, 0, -4, 3),
                 gOut |-> P(1, 0, 0, 1, 0), eOut |-> P(5, 4, 0, 0, 3)],
                [gIn |-> P(6, 0, 6, 0, 0), eIn |-> P(3, 0, 0, 0, 3),
                 gOut |-> P(3, 3, 0, 0, 0), eOut |-> P(5, 0, 4, 0, 3)] >>
    IN  t[KinIndex(c)]

ComptonInvAmp(d, gI, eI, gF, eF) ==
    LET uI(h) == SetStateU(eI.Mom, h)
        uF(h) == SetStateU(eF.Mom, h)
        mLepton == eI.Mass
        edenom1 == 2 * ScalarProd(eI.Mom, gI.Mom)
        edenom2 == -2 * ScalarProd(eI.Mom, gF.Mom)
        ePropagator1 ==
            MDiv(AddScalar(Slash(VAdd(eI.Mom, gI.Mom)), mLepton), edenom1)
        ePropagator2 ==
            MDiv(AddScalar(Slash(VSub(eI.Mom, gF.Mom)), mLepton), edenom2)
        D == [gi \in {0, 1}, gf \in {0, 1} |->
                LET epsI == SlashEps(Eps(gI.Mom, gi + 1))
                    epsF == SlashEps(EpsStar(gF.Mom, gf + 1))
                IN  MAdd(MMul3(epsF, ePropagator1, epsI),
                         MMul3(epsI, ePropagator2, epsF))]
    IN  [den |-> 1,
         num |-> [i \in Idx(4) |->
                    DiracValue(d, uF(i[2]), D[i[3], i[4]], uI(i[1]))]]

\* invAmp of every offered call: the tensor depends on the Dirac library
\* and on the momenta and masses only, not on the SDMs
ComptonAmplitudes ==
    [d \in 1..NDirac, c \in 1..NKin |->
        LET k == ComptonKin(c)
        IN  Stored(ComptonInvAmp(d, k.gIn, k.eIn, k.gOut, k.eOut))] @@ << >>

ComptonAmpSquared(invAmp, gI, eI, gF, eF) ==
    Contract(invAmp.num, << KetFirst(eI.SDM), BraFirst(eF.SDM),
                            KetFirst(gI.SDM), BraFirst(gF.SDM) >>)

\* Compton has no DEBUGGING block: nothing is checked, nothing printed
ComptonWarning(ampSquared) == FALSE

ComptonKinFactor(gI, eI, gF, eF) ==
    LET fluxIn == 4 * gI.Mom[1] * (Length(eI.Mom) + eI.Mom[1])
        rhoFin == Quot(gF.Mom[1] * gF.Mom[1], 4 * ScalarProd(eF.Mom, gF.Mom))
    IN  QuotMul(QuotMul(<< 4, 1 >>, rhoFin), Quot(1, fluxIn))

(***************************************************************************)
(* TCrossSection::Bremsstrahlung(eIn, eOut, gOut)                          *)
(***************************************************************************)
BremsstrahlungIndex == << "eIn", "eOut", "gOut" >>
BremsstrahlungKin(c) ==
    LET t == << [eIn |-> P(5, 0, 0, 4, 3), eOut |-> P(3, 0, 0, 0, 3),
                 gOut |-> P(1, 1, 0, 0, 0)],
                [eIn |-> P(5, 4, 0, 0, 3), eOut |-> P(5, 0, 4, 0, 3),
                 gOut |-> P(2, 0, 0, 2, 0)],
                [eIn |-> P(5, 0, 4, 0, 3), eOut |-> P(3, 0, 0, 0, 3),
                 gOut |-> P(2, 0, 2, 0, 0)] >>
    IN  t[KinIndex(c)]

BremsstrahlungInvAmp(d, eI, eF, gF) ==
    LET uI(h) == SetStateU(eI.Mom, h)
        uF(h) == SetStateU(eF.Mom, h)
        mLepton == eI.Mass
        qRecoil == VSub(VSub(eI.Mom, eF.Mom), gF.Mom)
        edenom1 == InvariantSqr(qRecoil) - 2 * ScalarProd(qRecoil, eI.Mom)
        edenom2 == InvariantSqr(qRecoil) + 2 * ScalarProd(qRecoil, eF.Mom)
        ePropagator1 ==
            MDiv(AddScalar(Slash(VSub(eI.Mom, qRecoil)), mLepton), edenom1)
        ePropagator2 ==
            MDiv(AddScalar(Slash(VAdd(eF.Mom, qRecoil)), mLepton), edenom2)
        gamma0 == Gamma(0)
        D == [gf \in {0, 1} |->
                LET epsF == SlashEps(EpsStar(gF.Mom, gf + 1))
                IN  MAdd(MMul3(epsF, ePropagator1, gamma0),
                         MMul3(gamma0, ePropagator2, epsF))]
    IN  [den |-> 1,
         num |-> [i \in Idx(3) |-> DiracValue(d, uF(i[2]), D[i[3]], uI(i[1]))]]

\* invAmp of every offered call: the tensor depends on the Dirac library
\* and on the momenta and masses only, not on the SDMs
BremsstrahlungAmplitudes ==
    [d \in 1..NDirac, c \in 1..NKin |->
        LET k == BremsstrahlungKin(c)
        IN  Stored(BremsstrahlungInvAmp(d, k.eIn, k.eOut, k.gOut))] @@ << >>

\* variant: the two lepton SDMs weight each other's index
BremsstrahlungAmpSquaredCrossed(invAmp, eI, eF, gF) ==
    Contract(invAmp.num,
             << BraFirst(eF.SDM), KetFirst(eI.SDM), BraFirst(gF.SDM) >>)

BremsstrahlungAmpSquared(invAmp, eI, eF, gF) ==
    Contract(invAmp.num,
             << KetFirst(eI.SDM), BraFirst(eF.SDM), BraFirst(gF.SDM) >>)

BremsstrahlungWarning(ampSquared) == BadAmplitude(ampSquared)

\* 1/sqr(2 pi E) / sqr(qRecoil^2), in units of pi^-2
BremsstrahlungKinFactor(eI, eF, gF) ==
    LET qRecoil == VSub(VSub(eI.Mom, eF.Mom), gF.Mom)
        q2 == InvariantSqr(qRecoil)
    IN  Quot(1, 4 * eI.Mom[1] * eI.Mom[1] * q2 * q2)

(***************************************************************************)
(* TCrossSection::PairProduction(gIn, eOut, pOut)                          *)
(***************************************************************************)
PairProductionIndex == << "pOut", "eOut", "gIn" >>
PairProductionKin(c) ==
    LET t == << [gIn |-> P(8, 0, 0, 8, 0), eOut |-> P(5, 0, 0, 4, 3),
                 pOut |-> P(3, 0, 0, 0, 3)],
                [gIn |-> P(10, 10, 0, 0, 0), eOut |-> P(5, 4, 0, 0, 3),
                 pOut |-> P(5, 0, 4, 0, 3)],
                [gIn |-> P(8, 0, 8, 0, 0), eOut |-> P(3, 0, 0, 0, 3),
                 pOut |-> P(5, 0, 4, 0, 3)] >>
    IN  t[KinIndex(c)]

PairProductionInvAmp(d, gI, eF, pF) ==
    LET uF(h) == SetStateU(eF.Mom, h)
        vF(h) == SetStateV(pF.Mom, h)
        mLepton == eF.Mass
        edenom1 == -2 * ScalarProd(gI.Mom, eF.Mom)
        edenom2 == -2 * ScalarProd(gI.Mom, pF.Mom)
        ePropagator1 ==
            MDiv(AddScalar(Slash(VSub(eF.Mom, gI.Mom)), mLepton), edenom1)
        ePropagator2 ==
            MDiv(AddScalar(Slash(VSub(gI.Mom, pF.Mom)), mLepton), edenom2)
        gamma0 == Gamma(0)
        D == [gi \in {0, 1} |->
                LET epsI == SlashEps(Eps(gI.Mom, gi + 1))
                IN  MAdd(MMul3(epsI, ePropagator1, gamma0),
                         MMul3(gamma0, ePropagator2, epsI))]
    IN  [den |-> 1,
         num |-> [i \in Idx(3) |-> DiracValue(d, uF(i[2]), D[i[3]], vF(i[1]))]]

\* invAmp of every offered call: the tensor depends on the Dirac library
\* and on the momenta and masses only, not on the SDMs
PairProductionAmplitudes ==
    [d \in 1..NDirac, c \in 1..NKin |->
        LET k == PairProductionKin(c)
        IN  Stored(PairProductionInvAmp(d, k.gIn, k.eOut, k.pOut))] @@ << >>

\* variant: the final-state positron indexed bra-first like the electron
PairProductionAmpSquaredBraFirst(invAmp, gI, eF, pF) ==
    Contract(invAmp.num,
             << BraFirst(pF.SDM), BraFirst(eF.SDM), KetFirst(gI.SDM) >>)

PairProductionAmpSquared(invAmp, gI, eF, pF) ==
    Contract(invAmp.num,
             << KetFirst(pF.SDM), BraFirst(eF.SDM), KetFirst(gI.SDM) >>)

PairProductionWarning(ampSquared) == BadAmplitude(ampSquared)

\* 1/sqr(2 pi E) / sqr(qRecoil^2), in units of pi^-2
PairProductionKinFactor(gI, eF, pF) ==
    LET qRecoil == VSub(VSub(gI.Mom, eF.Mom), pF.Mom)
        q2 == InvariantSqr(qRecoil)
    IN  Quot(1, 4 * gI.Mom[1] * gI.Mom[1] * q2 * q2)

(***************************************************************************)
(* TCrossSection::TripletProduction(gIn, eIn, pOut, eOut2, eOut3)          *)
(***************************************************************************)
TripletProductionIndex == << "eIn", "pOut", "eOut2", "eOut3", "gIn" >>
TripletProductionKin(c) ==
    LET t == << [gIn |-> P(8, 0, 0, 8, 0), eIn |-> P(5, 4, 0, 0, 3),
                 pOut |-> P(5, 0, 0, 4, 3), eOut2 |-> P(3, 0, 0, 0, 3),
                 eOut3 |-> P(5, 0, 0, 4, 3)],
                [gIn |-> P(8, 0, 0, 8, 0), eIn |-> P(5, 0, 0, 4, 3),
                 pOut |-> P(3, 0, 0, 0, 3), eOut2 |-> P(5, 4, 0, 0, 3),
                 eOut3 |-> P(5, -4, 0, 0, 3)],
                [gIn |-> P(8, 0, 0, 8, 0), eIn |-> P(3, 0, 0, 0, 3),
                 pOut |-> P(5, 0, 4, 0, 3), eOut2 |-> P(5, 0, 4, 0, 3),
                 eOut3 |-> P(5, 3, 0, 0, 4)] >>
    IN  t[KinIndex(c)]

\* the metric sign of the Lorentz index mu: (mu == 0)? +1 : -1
MetricSign(mu) == IF mu = 0 THEN 1 ELSE -1

\* variant: the exchange diagrams CD3 enter with the sign of CD2
TripletProductionSignsSame == << 1, 1, 1, -1 >>

\* the signs of the four diagram pairs CD2, CD3, GD2, GD3 in the summand
TripletProductionSigns == << 1, -1, 1, -1 >>

\* variant: the exchange diagrams are kept whatever the masses
TripletProductionSwapAlways(e2, e3) == << 1, 1 >>

\* the factor of the exchange chains CD3 and GD3 next to their photon
\* propagator: if (e2->Mass() == e3->Mass()) ... else { CD3 *= 0; GD3 *= 0; }
TripletProductionSwap(e2, e3) ==
    IF e2.Mass = e3.Mass THEN << 1, 1 >> ELSE << 0, 1 >>

\* the amplitude loop with the four diagram pairs CD2, CD3, GD2, GD3
\* entering the summand with the factors sign
TripletProductionSummand(d, sign, g0, e0, e1, e2, e3) ==
    LET mLepton == e0.Mass
        u0(h) == SetStateU(e0.Mom, h)
        v1(h) == SetStateV(e1.Mom, h)
        u2(h) == SetStateU(e2.Mom, h)
        u3(h) == SetStateU(e3.Mom, h)
        edenomCD2a == 2 * ScalarProd(g0.Mom, e0.Mom)
        edenomCD2b == -2 * ScalarProd(g0.Mom, e2.Mom)
        edenomGD2a == -2 * ScalarProd(g0.Mom, e1.Mom)
        edenomGD2b == -2 * ScalarProd(g0.Mom, e3.Mom)
        epropCD2a ==
            MDiv(AddScalar(Slash(VAdd(g0.Mom, e0.Mom)), mLepton), edenomCD2a)
        epropCD2b ==
            MDiv(AddScalar(Slash(VSub(e2.Mom, g0.Mom)), mLepton), edenomCD2b)
        epropGD2a ==
            MDiv(AddScalar(Slash(VSub(g0.Mom, e1.Mom)), mLepton), edenomGD2a)
        epropGD2b ==
            MDiv(AddScalar(Slash(VSub(e3.Mom, g0.Mom)), mLepton), edenomGD2b)
        epropCD3a == epropCD2a
        epropCD3b == epropGD2b
        epropGD3a == epropGD2a
        epropGD3b == epropCD2b
        gpropCD2 == Quot(1, InvariantSqr(VAdd(e1.Mom, e3.Mom)))
        gpropGD2 == Quot(1, InvariantSqr(VSub(e0.Mom, e2.Mom)))
        gpropCD3 == Quot(1, InvariantSqr(VAdd(e1.Mom, e2.Mom)))
        gpropGD3 == Quot(1, InvariantSqr(VSub(e0.Mom, e3.Mom)))
        swap == TripletProductionSwap(e2, e3)
        Chain(gi, mu, propa, propb) ==
            LET epsI == SlashEps(Eps(g0.Mom, gi + 1))
            IN  MAdd(MMul3(Gamma(mu), propa, epsI), MMul3(epsI, propb, Gamma(mu)))
        CD2 == [gi \in {0, 1}, mu \in 0..3 |->
                  MScale(Chain(gi, mu, epropCD2a, epropCD2b), gpropCD2)]
        GD2 == [gi \in {0, 1}, mu \in 0..3 |->
                  MScale(Chain(gi, mu, epropGD2a, epropGD2b), gpropGD2)]
        CD3 == [gi \in {0, 1}, mu \in 0..3 |->
                  MScale(Chain(gi, mu, epropCD3a, epropCD3b),
                         QuotMul(gpropCD3, swap))]
        GD3 == [gi \in {0, 1}, mu \in 0..3 |->
                  MScale(Chain(gi, mu, epropGD3a, epropGD3b),
                         QuotMul(gpropGD3, swap))]
        Term(h0, h1, h2, h3, gi, mu) ==
            CScale(MetricSign(mu),
              CAdd(CAdd(CAdd(
                CScale(sign[1],
                  CMul(DiracValue(d, u3(h3), Gamma(mu), v1(h1)),
                       DiracValue(d, u2(h2), CD2[gi, mu], u0(h0)))),
                CScale(sign[2],
                  CMul(DiracValue(d, u2(h2), Gamma(mu), v1(h1)),
                       DiracValue(d, u3(h3), CD3[gi, mu], u0(h0))))),
                CScale(sign[3],
                  CMul(DiracValue(d, u2(h2), Gamma(mu), u0(h0)),
                       DiracValue(d, u3(h3), GD2[gi, mu], v1(h1))))),
                CScale(sign[4],
                  CMul(DiracValue(d, u3(h3), Gamma(mu), u0(h0)),
                       DiracValue(d, u2(h2), GD3[gi, mu], v1(h1))))))
    IN  [den |-> 1,
         num |-> [i \in Idx(5) |->
                    LET T(mu) == Term(i[1], i[2], i[3], i[4], i[5], mu)
                    IN  CAdd(CAdd(T(0), T(1)), CAdd(T(2), T(3)))]]

TripletProductionInvAmp(d, g0, e0, e1, e2, e3) ==
    TripletProductionSummand(d, TripletProductionSigns, g0, e0, e1, e2, e3)

\* invAmp of every offered call: the tensor depends on the Dirac library
\* and on the momenta and masses only, not on the SDMs
TripletProductionAmplitudes ==
    [d \in 1..NDirac, c \in 1..NKin |->
        LET k == TripletProductionKin(c)
        IN  Stored(TripletProductionInvAmp(d, k.gIn, k.eIn, k.pOut, k.eOut2, k.eOut3))] @@ << >>

TripletProductionAmpSquared(invAmp, g0, e0, e1, e2, e3) ==
    Contract(invAmp.num,
             << KetFirst(e0.SDM), KetFirst(e1.SDM), BraFirst(e2.SDM),
                BraFirst(e3.SDM), KetFirst(g0.SDM) >>)

TripletProductionWarning(ampSquared) == BadAmplitude(ampSquared)

\* 1/fluxFactor * rhoFactor * piFactor, in units of pi^-2:
\* piFactor = (2 pi)^(4-9) * (4 pi)^3 = 2 / pi^2
TripletProductionKinFactor(g0, e0, e1, e2, e3) ==
    LET fluxFactor == 4 * g0.Mom[1] * (Length(e0.Mom) + e0.Mom[1])
        rhoFactor == Quot(1, 8 * e3.Mom[1] * Length(VAdd(e1.Mom, e2.Mom)))
    IN  QuotMul(QuotMul(Quot(1, fluxFactor), rhoFactor), << 2, 1 >>)

(***************************************************************************)
(* TCrossSection::BetheHeitlerNucleon(gIn, nIn, pOut, eOut, nOut,          *)
(*                 F1spacelike, F2spacelike, F1timelike, F2timelike)       *)
(***************************************************************************)
BetheHeitlerNucleonIndex == << "nIn", "pOut", "eOut", "nOut", "gIn" >>
BetheHeitlerNucleonKin(c) ==
    LET t == << [gIn |-> P(8, 0, 0, 8, 0), nIn |-> P(5, 0, 0, 0, 5),
                 pOut |-> P(5, 0, 0, 4, 3), eOut |-> P(3, 0, 0, 0, 3),
                 nOut |-> P(13, 0, 12, 0, 5)],
                [gIn |-> P(6, 6, 0, 0, 0), nIn |-> P(13, 0, 0, 12, 5),
                 pOut |-> P(5, 4, 0, 0, 3), eOut |-> P(5, 4, 0, 0, 3),
                 nOut |-> P(5, 0, 0, 0, 5)],
                [gIn |-> P(4, 0, 4, 0, 0), nIn |-> P(5, 0, 0, 0, 5),
                 pOut |-> P(3, 0, 0, 0, 3), eOut |-> P(5, 0, 4, 0, 3),
                 nOut |-> P(13, 12, 0, 0, 5)] >>
    IN  t[KinIndex(c)]
\* the nucleon form factors passed with each configuration
BetheHeitlerNucleonFormFactors(c) ==
    LET t == << [F1spacelike |-> 1, F2spacelike |-> 0,
                 F1timelike |-> 1, F2timelike |-> 0],
                [F1spacelike |-> 1, F2spacelike |-> 2,
                 F1timelike |-> 1, F2timelike |-> 1],
                [F1spacelike |-> 2, F2spacelike |-> 1,
                 F1timelike |-> 1, F2timelike |-> 3] >>
    IN  t[KinIndex(c)]

\* the sigma^{mu nu} q_nu combination of the nucleon current, row mu
SigmaQ(mu, q) ==
    LET S(a, b, x) == MScale(Sigma(a, b), << x, 1 >>)
        Sum3(A, B, C) == MAdd(MAdd(A, B), C)
    IN  IF mu = 0 THEN Sum3(S(0, 1, -q[2]), S(0, 2, -q[3]), S(0, 3, -q[4]))
        ELSE IF mu = 1 THEN Sum3(S(0, 1, -q[1]), S(1, 2, -q[3]), S(1, 3, -q[4]))
        ELSE IF mu = 2 THEN Sum3(S(0, 2, -q[1]), S(1, 2, q[2]), S(2, 3, -q[4]))
        ELSE Sum3(S(0, 3, -q[1]), S(1, 3, q[2]), S(2, 3, q[3]))

\* gamma[mu] * F1 + Complex_t(0, F2 / (2 * mNucleon)) * (sigma terms)
Jnucleon(mu, F1, F2, mNucleon, q) ==
    MAdd(MScale(Gamma(mu), << F1, 1 >>),
         MScaleI(SigmaQ(mu, q), Quot(F2, 2 * mNucleon)))

BetheHeitlerNucleonInvAmp(d, g0, n0, e1, e2, n3, ff) ==
    LET mLepton == e1.Mass
        mNucleon == n0.Mass
        u0(h) == SetStateU(n0.Mom, h)
        v1(h) == SetStateV(e1.Mom, h)
        u2(h) == SetStateU(e2.Mom, h)
        u3(h) == SetStateU(n3.Mom, h)
        ndenomCDa == 2 * ScalarProd(g0.Mom, n0.Mom)
        ndenomCDb == -2 * ScalarProd(g0.Mom, n3.Mom)
        edenomGDa == -2 * ScalarProd(g0.Mom, e1.Mom)
        edenomGDb == -2 * ScalarProd(g0.Mom, e2.Mom)
        npropCDa ==
            MDiv(AddScalar(Slash(VAdd(g0.Mom, n0.Mom)), mNucleon), ndenomCDa)
        npropCDb ==
            MDiv(AddScalar(Slash(VSub(n3.Mom, g0.Mom)), mNucleon), ndenomCDb)
        epropGDa ==
            MDiv(AddScalar(Slash(VSub(g0.Mom, e1.Mom)), mLepton), edenomGDa)
        epropGDb ==
            MDiv(AddScalar(Slash(VSub(e2.Mom, g0.Mom)), mLepton), edenomGDb)
        gpropCD == Quot(1, InvariantSqr(VAdd(e1.Mom, e2.Mom)))
        gpropGD == Quot(1, InvariantSqr(VSub(n0.Mom, n3.Mom)))
        qCD == VAdd(e1.Mom, e2.Mom)
        qGD == VSub(n3.Mom, n0.Mom)
        JnucleonCD(mu) == Jnucleon(mu, ff.F1timelike, ff.F2timelike, mNucleon, qCD)
        JnucleonGD(mu) == Jnucleon(mu, ff.F1spacelike, ff.F2spacelike, mNucleon, qGD)
        epsI(gi) == SlashEps(Eps(g0.Mom, gi + 1))
        CD == [gi \in {0, 1}, mu \in 0..3 |->
                 MScale(MAdd(MMul3(JnucleonCD(mu), npropCDa, epsI(gi)),
                             MMul3(epsI(gi), npropCDb, JnucleonCD(mu))), gpropCD)]
        GD == [gi \in {0, 1}, mu \in 0..3 |->
                 MScale(MAdd(MMul3(Gamma(mu), epropGDa, epsI(gi)),
                             MMul3(epsI(gi), epropGDb, Gamma(mu))), gpropGD)]
        Term(h0, h1, h2, h3, gi, mu) ==
            CScale(MetricSign(mu),
              CAdd(CMul(DiracValue(d, u2(h2), Gamma(mu), v1(h1)),
                        DiracValue(d, u3(h3), CD[gi, mu], u0(h0))),
                   CMul(DiracValue(d, u3(h3), JnucleonGD(mu), u0(h0)),
                        DiracValue(d, u2(h2), GD[gi, mu], v1(h1)))))
    IN  [den |-> 1,
         num |-> [i \in Idx(5) |->
                    LET T(mu) == Term(i[1], i[2], i[3], i[4], i[5], mu)
                    IN  CAdd(CAdd(T(0), T(1)), CAdd(T(2), T(3)))]]

\* invAmp of every offered call: the tensor depends on the Dirac library,
\* the momenta, the masses and the form factors only, not on the SDMs
BetheHeitlerNucleonAmplitudes ==
    [d \in 1..NDirac, c \in 1..NKin |->
        LET k == BetheHeitlerNucleonKin(c)
        IN  Stored(BetheHeitlerNucleonInvAmp(d, k.gIn, k.nIn, k.pOut, k.eOut,
                       k.nOut, BetheHeitlerNucleonFormFactors(c)))] @@ << >>

BetheHeitlerNucleonAmpSquared(invAmp, g0, n0, e1, e2, n3) ==
    Contract(invAmp.num,
             << KetFirst(n0.SDM), KetFirst(e1.SDM), BraFirst(e2.SDM),
                BraFirst(n3.SDM), KetFirst(g0.SDM) >>)

BetheHeitlerNucleonWarning(ampSquared) == BadAmplitude(ampSquared)

\* 1/fluxFactor * rhoFactor * piFactor, in units of pi^-2
BetheHeitlerNucleonKinFactor(g0, n0, e1, e2, n3) ==
    LET fluxFactor == 4 * g0.Mom[1] * (Length(n0.Mom) + n0.Mom[1])
        rhoFactor == Quot(1, 8 * n3.Mom[1] * Length(VAdd(e1.Mom, e2.Mom)))
    IN  QuotMul(QuotMul(Quot(1, fluxFactor), rhoFactor), << 2, 1 >>)

(***************************************************************************)
(* TCrossSection::eeBremsstrahlung(eIn0, eIn1, eOut2, eOut3, gOut)         *)
(***************************************************************************)
eeBremsstrahlungIndex == << "eIn0", "eIn1", "eOut2", "eOut3", "gOut" >>
eeBremsstrahlungKin(c) ==
    LET t == << [eIn0 |-> P(5, 0, 0, 4, 3), eIn1 |-> P(5, 0, 0, -4, 3),
                 eOut2 |-> P(5, 4, 0, 0, 3), eOut3 |-> P(3, 0, 0, 0, 3),
                 gOut |-> P(2, 0, 2, 0, 0)],
                [eIn0 |-> P(5, 0, 0, 4, 3), eIn1 |-> P(3, 0, 0, 0, 3),
                 eOut2 |-> P(5, 4, 0, 0, 3), eOut3 |-> P(5, 0, 4, 0, 3),
                 gOut |-> P(1, 0, 0, 1, 0)],
                [eIn0 |-> P(5, 4, 0, 0, 3), eIn1 |-> P(3, 0, 0, 0, 3),
                 eOut2 |-> P(5, 0, 4, 0, 3), eOut3 |-> P(5, 0, 0, 4, 3),
                 gOut |-> P(2, 2, 0, 0, 0)] >>
    IN  t[KinIndex(c)]

\* the signs of the four diagram pairs A, B, C, D in the summand
eeBremsstrahlungSigns == << 1, 1, -1, -1 >>

eeBremsstrahlungInvAmp(d, e0, e1, e2, e3, g0) ==
    LET mLepton == e0.Mass
        u0(h) == SetStateU(e0.Mom, h)
        u1(h) == SetStateU(e1.Mom, h)
        u2(h) == SetStateU(e2.Mom, h)
        u3(h) == SetStateU(e3.Mom, h)
        edenomA1 == -2 * ScalarProd(g0.Mom, e0.Mom)
        edenomA2 == 2 * ScalarProd(g0.Mom, e2.Mom)
        edenomB1 == -2 * ScalarProd(g0.Mom, e1.Mom)
        edenomB2 == 2 * ScalarProd(g0.Mom, e3.Mom)
        epropA1 ==
            MDiv(AddScalar(Slash(VSub(e0.Mom, g0.Mom)), mLepton), edenomA1)
        epropA2 ==
            MDiv(AddScalar(Slash(VAdd(e2.Mom, g0.Mom)), mLepton), edenomA2)
        epropB1 ==
            MDiv(AddScalar(Slash(VSub(e1.Mom, g0.Mom)), mLepton), edenomB1)
        epropB2 ==
            MDiv(AddScalar(Slash(VAdd(e3.Mom, g0.Mom)), mLepton), edenomB2)
        epropC1 == epropA1
        epropC2 == epropB2
        epropD1 == epropB1
        epropD2 == epropA2
        gpropA == Quot(1, InvariantSqr(VSub(e1.Mom, e3.Mom)))
        gpropB == Quot(1, InvariantSqr(VSub(e0.Mom, e2.Mom)))
        gpropC == Quot(1, InvariantSqr(VSub(e1.Mom, e2.Mom)))
        gpropD == Quot(1, InvariantSqr(VSub(e0.Mom, e3.Mom)))
        Chain(gf, mu, prop1, prop2, gprop) ==
            LET epsF == SlashEps(EpsStar(g0.Mom, gf + 1))
            IN  MScale(MAdd(MMul3(Gamma(mu), prop1, epsF),
                            MMul3(epsF, prop2, Gamma(mu))), gprop)
        A == [gf \in {0, 1}, mu \in 0..3 |-> Chain(gf, mu, epropA1, epropA2, gpropA)]
        B == [gf \in {0, 1}, mu \in 0..3 |-> Chain(gf, mu, epropB1, epropB2, gpropB)]
        C == [gf \in {0, 1}, mu \in 0..3 |-> Chain(gf, mu, epropC1, epropC2, gpropC)]
        D == [gf \in {0, 1}, mu \in 0..3 |-> Chain(gf, mu, epropD1, epropD2, gpropD)]
        sign == eeBremsstrahlungSigns
        Term(h0, h1, h2, h3, gf, mu) ==
            CScale(MetricSign(mu),
              CAdd(CAdd(CAdd(
                CScale(sign[1],
                  CMul(DiracValue(d, u3(h3), Gamma(mu), u1(h1)),
                       DiracValue(d, u2(h2), A[gf, mu], u0(h0)))),
                CScale(sign[2],
                  CMul(DiracValue(d, u2(h2), Gamma(mu), u0(h0)),
                       DiracValue(d, u3(h3), B[gf, mu], u1(h1))))),
                CScale(sign[3],
                  CMul(DiracValue(d, u2(h2), Gamma(mu), u1(h1)),
                       DiracValue(d, u3(h3), C[gf, mu], u0(h0))))),
                CScale(sign[4],
                  CMul(DiracValue(d, u3(h3), Gamma(mu), u0(h0)),
                       DiracValue(d, u2(h2), D[gf, mu], u1(h1))))))
    IN  [den |-> 1,
         num |-> [i \in Idx(5) |->
                    LET T(mu) == Term(i[1], i[2], i[3], i[4], i[5], mu)
                    IN  CAdd(CAdd(T(0), T(1)), CAdd(T(2), T(3)))]]

\* invAmp of every offered call: the tensor depends on the Dirac library
\* and on the momenta and masses only, not on the SDMs
eeBremsstrahlungAmplitudes ==
    [d \in 1..NDirac, c \in 1..NKin |->
        LET k == eeBremsstrahlungKin(c)
        IN  Stored(eeBremsstrahlungInvAmp(d, k.eIn0, k.eIn1, k.eOut2,
                                          k.eOut3, k.gOut))] @@ << >>

eeBremsstrahlungAmpSquared(invAmp, e0, e1, e2, e3, g0) ==
    Contract(invAmp.num,
             << KetFirst(e0.SDM), KetFirst(e1.SDM), BraFirst(e2.SDM),
                BraFirst(e3.SDM), BraFirst(g0.SDM) >>)

eeBremsstrahlungWarning(ampSquared) == BadAmplitude(ampSquared)

\* 1/sqr(2 pi E0) / (4 E1 E3), in units of pi^-2
eeBremsstrahlungKinFactor(e0, e1, e2, e3, g0) ==
    Quot(1, 4 * e0.Mom[1] * e0.Mom[1] * 4 * e1.Mom[1] * e3.Mom[1])

(***************************************************************************)
(* TCrossSection::ePairProduction(eIn, eOut, lpOut, lnOut)                 *)
(* The four virtual-photon invariants divide complex numbers, not          *)
(* matrices: the tensor is kept as integer numerators over their least     *)
(* common multiple den.                                                    *)
(***************************************************************************)
ePairProductionIndex == << "eIn", "eOut", "lpOut", "lnOut" >>
ePairProductionKin(c) ==
    LET t == << [eIn |-> P(5, 4, 0, 0, 3), eOut |-> P(5, 0, 4, 0, 3),
                 lpOut |-> P(3, 0, 0, 0, 3), lnOut |-> P(5, 0, 0, 4, 3)],
                [eIn |-> P(5, 0, 0, 4, 3), eOut |-> P(5, 4, 0, 0, 3),
                 lpOut |-> P(3, 0, 0, 0, 3), lnOut |-> P(5, 0, -4, 0, 3)],
                [eIn |-> P(5, 0, 4, 0, 3), eOut |-> P(5, 0, 0, -4, 3),
                 lpOut |-> P(3, 0, 0, 0, 3), lnOut |-> P(5, 4, 0, 0, 3)] >>
    IN  t[KinIndex(c)]

\* the signs of the four diagram pairs in the summand: ePropagator1,2 and
\* ePropagator3,4 (direct), ePropagator5,6 and ePropagator7,8 (exchange)
ePairProductionSigns == << 1, 1, -1, -1 >>

\* the amplitude loop with the four diagram pairs entering the summand
\* with the factors sign
ePairProductionSummand(d, sign, eI, eF, lpF, lnF) ==
    LET uI(h) == SetStateU(eI.Mom, h)
        uF(h) == SetStateU(eF.Mom, h)
        ulF(h) == SetStateU(lnF.Mom, h)
        vlF(h) == SetStateV(lpF.Mom, h)
        mLepton == lnF.Mass
        Prop(v, denom) == MDiv(AddScalar(Slash(v), mLepton), denom)
        qElectron == VSub(eI.Mom, eF.Mom)
        qPair == VAdd(lnF.Mom, lpF.Mom)
        qElectron2 == InvariantSqr(qElectron)
        qPair2 == InvariantSqr(qPair)
        ePropagator1 == Prop(VSub(qElectron, lpF.Mom),
                             qElectron2 - 2 * ScalarProd(qElectron, lpF.Mom))
        ePropagator2 == Prop(VSub(lnF.Mom, qElectron),
                             qElectron2 - 2 * ScalarProd(qElectron, lnF.Mom))
        ePropagator3 == Prop(VAdd(eF.Mom, qPair),
                             qPair2 + 2 * ScalarProd(qPair, eF.Mom))
        ePropagator4 == Prop(VSub(eI.Mom, qPair),
                             qPair2 - 2 * ScalarProd(qPair, eI.Mom))
        qElectronX == VSub(eI.Mom, lnF.Mom)
        qPairX == VAdd(eF.Mom, lpF.Mom)
        qElectronX2 == InvariantSqr(qElectronX)
        qPairX2 == InvariantSqr(qPairX)
        ePropagator5 == Prop(VSub(qElectronX, lpF.Mom),
                             qElectronX2 - 2 * ScalarProd(qElectronX, lpF.Mom))
        ePropagator6 == Prop(VSub(eF.Mom, qElectronX),
                             qElectronX2 - 2 * ScalarProd(qElectronX, eF.Mom))
        ePropagator7 == Prop(VAdd(lnF.Mom, qPairX),
                             qPairX2 + 2 * ScalarProd(qPairX, lnF.Mom))
        ePropagator8 == Prop(VSub(eI.Mom, qPairX),
                             qPairX2 - 2 * ScalarProd(qPairX, eI.Mom))
        gamma0 == Gamma(0)
        den == Lcm(Lcm(qElectron2, qPair2), Lcm(qElectronX2, qPairX2))
        \* x / q as a numerator over den
        Over(x, q) == CScale(den \div q, x)
        Term(hi, hf, li, lf, mu) ==
            CScale(MetricSign(mu),
              CAdd(CAdd(CAdd(
                Over(CScale(sign[1],
                       CMul(DiracValue(d, uF(hf), Gamma(mu), uI(hi)),
                            CAdd(DiracValue(d, ulF(lf),
                                   MMul3(gamma0, ePropagator1, Gamma(mu)), vlF(li)),
                                 DiracValue(d, ulF(lf),
                                   MMul3(Gamma(mu), ePropagator2, gamma0), vlF(li))))),
                     qElectron2),
                Over(CScale(sign[2],
                       CMul(DiracValue(d, ulF(lf), Gamma(mu), vlF(li)),
                            CAdd(DiracValue(d, uF(hf),
                                   MMul3(Gamma(mu), ePropagator3, gamma0), uI(hi)),
                                 DiracValue(d, uF(hf),
                                   MMul3(gamma0, ePropagator4, Gamma(mu)), uI(hi))))),
                     qPair2)),
                Over(CScale(sign[3],
                       CMul(DiracValue(d, ulF(lf), Gamma(mu), uI(hi)),
                            CAdd(DiracValue(d, uF(hf),
                                   MMul3(gamma0, ePropagator5, Gamma(mu)), vlF(li)),
                                 DiracValue(d, uF(hf),
                                   MMul3(Gamma(mu), ePropagator6, gamma0), vlF(li))))),
                     qElectronX2)),
                Over(CScale(sign[4],
                       CMul(DiracValue(d, uF(hf), Gamma(mu), vlF(li)),
                            CAdd(DiracValue(d, ulF(lf),
                                   MMul3(Gamma(mu), ePropagator7, gamma0), uI(hi)),
                                 DiracValue(d, ulF(lf),
                                   MMul3(gamma0, ePropagator8, Gamma(mu)), uI(hi))))),
                     qPairX2)))
    IN  [den |-> den,
         num |-> [i \in Idx(4) |->
                    LET T(mu) == Term(i[1], i[2], i[3], i[4], mu)
                    IN  CAdd(CAdd(T(0), T(1)), CAdd(T(2), T(3)))]]

ePairProductionInvAmp(d, eI, eF, lpF, lnF) ==
    ePairProductionSummand(d, ePairProductionSigns, eI, eF, lpF, lnF)

\* invAmp of every offered call: the tensor depends on the Dirac library
\* and on the momenta and masses only, not on the SDMs
ePairProductionAmplitudes ==
    [d \in 1..NDirac, c \in 1..NKin |->
        LET k == ePairProductionKin(c)
        IN  Stored(ePairProductionInvAmp(d, k.eIn, k.eOut, k.lpOut,
                                         k.lnOut))] @@ << >>

ePairProductionAmpSquared(invAmp, eI, eF, lpF, lnF) ==
    Contract(invAmp.num,
             << KetFirst(eI.SDM), BraFirst(eF.SDM), KetFirst(lpF.SDM),
                BraFirst(lnF.SDM) >>)

ePairProductionWarning(ampSquared) == BadAmplitude(ampSquared)

\* 1/(2 pi)^4 / (E_eIn * E_eOut * |qPair|) / sqr(qTarget^2), in units of
\* pi^-4
ePairProductionKinFactor(eIn, eOut, lpF, lnF) ==
    LET qElectron == VSub(eIn.Mom, eOut.Mom)
        qPair == VAdd(lnF.Mom, lpF.Mom)
        qTarget == VSub(qElectron, qPair)
        qTarget2 == InvariantSqr(qTarget)
    IN  Quot(1, 16 * eIn.Mom[1] * eOut.Mom[1] * Length(qPair)
                   * qTarget2 * qTarget2)

(***************************************************************************)
(* TCrossSection::eTripletProduction(eIn, eOut, lpOut, lnOut, teIn, teOut) *)
(* As in ePairProduction the products of photon invariants divide complex  *)
(* numbers: the tensor is integer numerators over their least common       *)
(* multiple den.  Permutation p of the code is p + 1 here.                 *)
(***************************************************************************)
eTripletProductionIndex ==
    << "eIn", "eOut", "lpOut", "lnOut", "teIn", "teOut" >>
eTripletProductionKin(c) ==
    LET t == << [eIn |-> P(5, 4, 0, 0, 3), eOut |-> P(5, -4, 0, 0, 3),
                 lpOut |-> P(3, 0, 0, 0, 3), lnOut |-> P(5, 0, 4, 0, 3),
                 teIn |-> P(5, 0, -4, 0, 3), teOut |-> P(5, 0, 0, 4, 3)],
                [eIn |-> P(5, 4, 0, 0, 3), eOut |-> P(5, -4, 0, 0, 3),
                 lpOut |-> P(5, 3, 0, 0, 4), lnOut |-> P(5, 3, 0, 0, 4),
                 teIn |-> P(5, 0, 4, 0, 3), teOut |-> P(5, 0, -4, 0, 3)],
                [eIn |-> P(5, 0, 4, 0, 3), eOut |-> P(5, 0, -4, 0, 3),
                 lpOut |-> P(3, 0, 0, 0, 3), lnOut |-> P(5, 0, 0, 4, 3),
                 teIn |-> P(5, 0, 0, -4, 3), teOut |-> P(5, 4, 0, 0, 3)] >>
    IN  t[KinIndex(c)]

\* variant: the two cyclic permutations entered as odd
permorderCyclicOdd == << 1, -1, -1, -1, -1, -1 >>

permorder == << 1, -1, 1, -1, 1, -1 >>
eFs == << "eF", "teF", "lnF", "lnF", "teF", "eF" >>
teFs == << "teF", "eF", "eF", "teF", "lnF", "lnF" >>
lnFs == << "lnF", "lnF", "teF", "eF", "eF", "teF" >>
uFs == << "uF", "utF", "ulF", "ulF", "utF", "uF" >>
utFs == << "utF", "uF", "uF", "utF", "ulF", "ulF" >>
ulFs == << "ulF", "ulF", "utF", "uF", "uF", "utF" >>

\* variant: all six permutations whatever the masses
eTripletProductionNpermsAlways(lnF) == 6

\* int nperms = (mLepton == mElectron)? 6 : 2, with mLepton = lnF->Mass()
eTripletProductionNperms(lnF) == IF lnF.Mass = mElectron THEN 6 ELSE 2

RECURSIVE LcmOver(_)
LcmOver(seq) == IF seq = << >> THEN 1 ELSE Lcm(Head(seq), LcmOver(Tail(seq)))

eTripletProductionInvAmp(d, eI, eF, lpF, lnF, teI, teF) ==
    LET uI(h) == SetStateU(eI.Mom, h)
        vlF(h) == SetStateV(lpF.Mom, h)
        utI(h) == SetStateU(teI.Mom, h)
        u == [uF |-> [h \in {0, 1} |-> SetStateU(eF.Mom, h)],
              ulF |-> [h \in {0, 1} |-> SetStateU(lnF.Mom, h)],
              utF |-> [h \in {0, 1} |-> SetStateU(teF.Mom, h)]]
        mom == [eF |-> eF.Mom, teF |-> teF.Mom, lnF |-> lnF.Mom]
        mLepton == lnF.Mass
        nperms == eTripletProductionNperms(lnF)
        qElectron(p) == VSub(eI.Mom, mom[eFs[p]])
        qTarget(p) == VSub(mom[teFs[p]], teI.Mom)
        qPair(p) == VAdd(mom[lnFs[p]], lpF.Mom)
        qElectron2(p) == InvariantSqr(qElectron(p))
        qTarget2(p) == InvariantSqr(qTarget(p))
        qPair2(p) == InvariantSqr(qPair(p))
        Prop(v, denom) == MDiv(AddScalar(Slash(v), mLepton), denom)
        den == LcmOver([j \in 1..(3 * nperms) |->
                  LET p == ((j - 1) \div 3) + 1
                  IN  IF j % 3 = 1 THEN qElectron2(p) * qTarget2(p)
                      ELSE IF j % 3 = 2 THEN qTarget2(p) * qPair2(p)
                      ELSE qElectron2(p) * qPair2(p)])
        ePropagator(n, p) ==
            IF n = 0 THEN Prop(VSub(qElectron(p), lpF.Mom),
                 qElectron2(p) - 2 * ScalarProd(qElectron(p), lpF.Mom))
            ELSE IF n = 1 THEN Prop(VSub(mom[lnFs[p]], qElectron(p)),
                 qElectron2(p) - 2 * ScalarProd(qElectron(p), mom[lnFs[p]]))
            ELSE IF n = 2 THEN Prop(VAdd(mom[eFs[p]], qPair(p)),
                 qPair2(p) + 2 * ScalarProd(qPair(p), mom[eFs[p]]))
            ELSE IF n = 3 THEN Prop(VSub(eI.Mom, qPair(p)),
                 qPair2(p) - 2 * ScalarProd(qPair(p), eI.Mom))
            ELSE IF n = 4 THEN Prop(VAdd(teI.Mom, qElectron(p)),
                 qElectron2(p) + 2 * ScalarProd(qElectron(p), teI.Mom))
            ELSE Prop(VSub(mom[teFs[p]], qElectron(p)),
                 qElectron2(p) - 2 * ScalarProd(qElectron(p), mom[teFs[p]]))
        \* x / q as a numerator over den
        Over(x, q) == CScale(den \div q, x)
        \* the spinor products of the summand, each computed once:
        \* the three currents
        JE == [p \in 1..nperms, hf \in 0..1, hi \in 0..1, mu \in 0..3 |->
                 DiracValue(d, u[uFs[p]][hf], Gamma(mu), uI(hi))] @@ << >>
        JT == [p \in 1..nperms, tf \in 0..1, ti \in 0..1, nu \in 0..3 |->
                 DiracValue(d, u[utFs[p]][tf], Gamma(nu), utI(ti))] @@ << >>
        JL == [p \in 1..nperms, lf \in 0..1, li \in 0..1, mu \in 0..3 |->
                 DiracValue(d, u[ulFs[p]][lf], Gamma(mu), vlF(li))] @@ << >>
        \* and the three sums of two propagator chains
        CL == [p \in 1..nperms, lf \in 0..1, li \in 0..1, mu \in 0..3,
               nu \in 0..3 |->
                 CAdd(DiracValue(d, u[ulFs[p]][lf],
                        MMul3(Gamma(nu), ePropagator(0, p), Gamma(mu)), vlF(li)),
                      DiracValue(d, u[ulFs[p]][lf],
                        MMul3(Gamma(mu), ePropagator(1, p), Gamma(nu)), vlF(li)))]
              @@ << >>
        CE == [p \in 1..nperms, hf \in 0..1, hi \in 0..1, mu \in 0..3,
               nu \in 0..3 |->
                 CAdd(DiracValue(d, u[uFs[p]][hf],
                        MMul3(Gamma(mu), ePropagator(2, p), Gamma(nu)), uI(hi)),
                      DiracValue(d, u[uFs[p]][hf],
                        MMul3(Gamma(nu), ePropagator(3, p), Gamma(mu)), uI(hi)))]
              @@ << >>
        CT == [p \in 1..nperms, tf \in 0..1, ti \in 0..1, mu \in 0..3,
               nu \in 0..3 |->
                 CAdd(DiracValue(d, u[utFs[p]][tf],
                        MMul3(Gamma(nu), ePropagator(4, p), Gamma(mu)), utI(ti)),
                      DiracValue(d, u[utFs[p]][tf],
                        MMul3(Gamma(mu), ePropagator(5, p), Gamma(nu)), utI(ti)))]
              @@ << >>
        \* the multipliers den / (q2 * q2') of the three terms
        over == [p \in 1..nperms |->
                   << den \div (qElectron2(p) * qTarget2(p)),
                      den \div (qTarget2(p) * qPair2(p)),
                      den \div (qElectron2(p) * qPair2(p)) >>] @@ << >>
        Term(hi, hf, li, lf, ti, tf, mu, nu, p) ==
            CScale(MetricSign(mu) * MetricSign(nu) * permorder[p],
              CAdd(CAdd(
                CScale(over[p][1],
                       CMul(CMul(JE[p, hf, hi, mu], JT[p, tf, ti, nu]),
                            CL[p, lf, li, mu, nu])),
                CScale(over[p][2],
                       CMul(CMul(JL[p, lf, li, mu], JT[p, tf, ti, nu]),
                            CE[p, hf, hi, mu, nu]))),
                CScale(over[p][3],
                       CMul(CMul(JE[p, hf, hi, mu], JL[p, lf, li, nu]),
                            CT[p, tf, ti, mu, nu]))))
        Sum4(F(_)) == CAdd(CAdd(F(0), F(1)), CAdd(F(2), F(3)))
        SumPerms(F(_)) ==
            IF nperms = 6
            THEN CAdd(CAdd(CAdd(F(1), F(2)), CAdd(F(3), F(4))), CAdd(F(5), F(6)))
            ELSE CAdd(F(1), F(2))
        \* the loops over mu, nu and p
        Entry(i) ==
            LET OverMu(mu) ==
                  LET OverNu(nu) ==
                        LET OverP(p) == Term(i[1], i[2], i[3], i[4], i[5], i[6],
                                             mu, nu, p)
                        IN  SumPerms(OverP)
                  IN  Sum4(OverNu)
            IN  Sum4(OverMu)
    IN  [den |-> den, num |-> [i \in Idx(6) |-> Entry(i)]]

\* invAmp of every offered call: the tensor depends on the Dirac library
\* and on the momenta and masses only, not on the SDMs
eTripletProductionAmplitudes ==
    [d \in 1..NDirac, c \in 1..NKin |->
        LET k == eTripletProductionKin(c)
        IN  Stored(eTripletProductionInvAmp(d, k.eIn, k.eOut, k.lpOut,
                       k.lnOut, k.teIn, k.teOut))] @@ << >>

eTripletProductionAmpSquared(invAmp, eI, eF, lpF, lnF, teI, teF) ==
    Contract(invAmp.num,
             << KetFirst(eI.SDM), BraFirst(eF.SDM), KetFirst(lpF.SDM),
                BraFirst(lnF.SDM), KetFirst(teI.SDM), BraFirst(teF.SDM) >>)

eTripletProductionWarning(ampSquared) == BadAmplitude(ampSquared)

\* 1/(2 pi)^4 / (4 mElectron E_teOut) / (E_eIn E_eOut |qPair[0]|), in units
\* of pi^-4
eTripletProductionKinFactor(eIn, eOut, lpF, lnF, teIn, teOut) ==
    Quot(1, 16 * 4 * mElectron * teOut.Mom[1] * eIn.Mom[1] * eOut.Mom[1]
               * Length(VAdd(lnF.Mom, lpF.Mom)))

(***************************************************************************)
(* The state: the Dirac-library interpretation, and the last call made     *)
(* with what it left behind.                                               *)
(***************************************************************************)
VARIABLES
    dirac,      \* which interpretation of the Dirac library is in force
    pc,         \* "ready": no call made yet or result consumed; "done"
    proc,       \* the process function last called
    argsIn,     \* its particle arguments as the caller passed them
    args,       \* the caller's particle objects after the call
    invAmp,     \* the helicity-amplitude tensor it computed
    ampSquared, \* the contracted value (numerator over invAmp.den squared)
    warned,     \* whether the consistency warning was printed
    ret         \* the value returned

\* calls of the process functions in progress at the same time
VARIABLES
    frame,      \* per caller: where its call stands and what its locals hold
    storage     \* the invAmp arrays, by the place each one is stored at

\* an object of the Pauli algebra package and the operation last applied
VARIABLES
    fResolution, \* TPauliMatrix::fResolution, a static member
    mantissa,    \* significant bits LDouble_t keeps; 0: exact real arithmetic
    fMatrix,     \* the entries of the TPauliMatrix object, or << >>
    fSpinor,     \* the components of the TPauliSpinor object, or << >>
    depth,       \* operations applied to the object since it was set
    last         \* the operation last applied, its inputs and outputs

callVars == << pc, proc, argsIn, args, invAmp, ampSquared, warned, ret >>
concVars == << frame, storage >>
pauliVars == << fResolution, mantissa, fMatrix, fSpinor, depth, last >>
vars == << dirac, callVars, concVars, pauliVars >>

\* no concurrent callers
ConcIdle ==
    /\ frame = << >>
    /\ storage = << >>

\* no object of the Pauli package
PauliIdle ==
    /\ fResolution = << 0, 1 >>
    /\ mantissa = 0
    /\ fMatrix = << >>
    /\ fSpinor = << >>
    /\ depth = 0
    /\ last = << >>

NoCall == [den |-> 1, num |-> << >>]

\* no call in progress and no result held
Idle ==
    /\ pc = "ready"
    /\ proc = "none"
    /\ argsIn = << >>
    /\ args = << >>
    /\ invAmp = NoCall
    /\ ampSquared = CZero
    /\ warned = FALSE
    /\ ret = [re |-> << 0, 1 >>, kin |-> << 0, 1 >>]

Init == dirac \in 1..NDirac /\ Idle /\ ConcIdle /\ PauliIdle

\* what every process function leaves behind
Finish(name, in, amp, ampSq, warn, kin) ==
    /\ pc' = "done"
    /\ proc' = name
    /\ argsIn' = in
    /\ args' = CallerObjects(in)
    /\ invAmp' = amp
    /\ ampSquared' = ampSq
    /\ warned' = warn
    /\ ret' = DiffXsect(ampSq, amp.den * amp.den, kin)
    /\ UNCHANGED << dirac, concVars, pauliVars >>

Compton ==
    /\ pc = "ready"
    /\ \E c \in 1..NKin :
         LET k == ComptonKin(c)
             amp == ComptonAmplitudes[dirac, c]
         IN  \E sdm \in SDMChoices(DOMAIN k) :
               LET in == WithSDM(k, sdm)
                   ampSq == ComptonAmpSquared(amp, in.gIn, in.eIn, in.gOut, in.eOut)
               IN  Finish("Compton", in, amp, ampSq, ComptonWarning(ampSq),
                          ComptonKinFactor(in.gIn, in.eIn, in.gOut, in.eOut))

Bremsstrahlung ==
    /\ pc = "ready"
    /\ \E c \in 1..NKin :
         LET k == BremsstrahlungKin(c)
             amp == BremsstrahlungAmplitudes[dirac, c]
         IN  \E sdm \in SDMChoices(DOMAIN k) :
               LET in == WithSDM(k, sdm)
                   ampSq == BremsstrahlungAmpSquared(amp, in.eIn, in.eOut, in.gOut)
               IN  Finish("Bremsstrahlung", in, amp, ampSq,
                          BremsstrahlungWarning(ampSq),
                          BremsstrahlungKinFactor(in.eIn, in.eOut, in.gOut))

PairProduction ==
    /\ pc = "ready"
    /\ \E c \in 1..NKin :
         LET k == PairProductionKin(c)
             amp == PairProductionAmplitudes[dirac, c]
         IN  \E sdm \in SDMChoices(DOMAIN k) :
               LET in == WithSDM(k, sdm)
                   ampSq == PairProductionAmpSquared(amp, in.gIn, in.eOut, in.pOut)
               IN  Finish("PairProduction", in, amp, ampSq,
                          PairProductionWarning(ampSq),
                          PairProductionKinFactor(in.gIn, in.eOut, in.pOut))

TripletProduction ==
    /\ pc = "ready"
    /\ \E c \in 1..NKin :
         LET k == TripletProductionKin(c)
             amp == TripletProductionAmplitudes[dirac, c]
         IN  \E sdm \in SDMChoices(DOMAIN k) :
               LET in == WithSDM(k, sdm)
                   ampSq == TripletProductionAmpSquared(amp, in.gIn, in.eIn,
                                in.pOut, in.eOut2, in.eOut3)
               IN  Finish("TripletProduction", in, amp, ampSq,
                          TripletProductionWarning(ampSq),
                          TripletProductionKinFactor(in.gIn, in.eIn, in.pOut,
                                                     in.eOut2, in.eOut3))

BetheHeitlerNucleon ==
    /\ pc = "ready"
    /\ \E c \in 1..NKin :
         LET k == BetheHeitlerNucleonKin(c)
             amp == BetheHeitlerNucleonAmplitudes[dirac, c]
         IN  \E sdm \in SDMChoices(DOMAIN k) :
               LET in == WithSDM(k, sdm)
                   ampSq == BetheHeitlerNucleonAmpSquared(amp, in.gIn, in.nIn,
                                in.pOut, in.eOut, in.nOut)
               IN  Finish("BetheHeitlerNucleon", in, amp, ampSq,
                          BetheHeitlerNucleonWarning(ampSq),
                          BetheHeitlerNucleonKinFactor(in.gIn, in.nIn, in.pOut,
                                                       in.eOut, in.nOut))

eeBremsstrahlung ==
    /\ pc = "ready"
    /\ \E c \in 1..NKin :
         LET k == eeBremsstrahlungKin(c)
             amp == eeBremsstrahlungAmplitudes[dirac, c]
         IN  \E sdm \in SDMChoices(DOMAIN k) :
               LET in == WithSDM(k, sdm)
                   ampSq == eeBremsstrahlungAmpSquared(amp, in.eIn0, in.eIn1,
                                in.eOut2, in.eOut3, in.gOut)
               IN  Finish("eeBremsstrahlung", in, amp, ampSq,
                          eeBremsstrahlungWarning(ampSq),
                          eeBremsstrahlungKinFactor(in.eIn0, in.eIn1, in.eOut2,
                                                    in.eOut3, in.gOut))

ePairProduction ==
    /\ pc = "ready"
    /\ \E c \in 1..NKin :
         LET k == ePairProductionKin(c)
             amp == ePairProductionAmplitudes[dirac, c]
         IN  \E sdm \in SDMChoices(DOMAIN k) :
               LET in == WithSDM(k, sdm)
                   ampSq == ePairProductionAmpSquared(amp, in.eIn, in.eOut,
                                in.lpOut, in.lnOut)
               IN  Finish("ePairProduction", in, amp, ampSq,
                          ePairProductionWarning(ampSq),
                          ePairProductionKinFactor(in.eIn, in.eOut, in.lpOut,
                                                   in.lnOut))

eTripletProduction ==
    /\ pc = "ready"
    /\ \E c \in 1..NKin :
         LET k == eTripletProductionKin(c)
             amp == eTripletProductionAmplitudes[dirac, c]
         IN  \E sdm \in SDMChoices(DOMAIN k) :
               LET in == WithSDM(k, sdm)
                   ampSq == eTripletProductionAmpSquared(amp, in.eIn, in.eOut,
                                in.lpOut, in.lnOut, in.teIn, in.teOut)
               IN  Finish("eTripletProduction", in, amp, ampSq,
                          eTripletProductionWarning(ampSq),
                          eTripletProductionKinFactor(in.eIn, in.eOut, in.lpOut,
                              in.lnOut, in.teIn, in.teOut))

\* the caller consumes the result and drops the objects of the call
Continue ==
    /\ pc = "done"
    /\ pc' = "ready"
    /\ proc' = "none"
    /\ argsIn' = << >>
    /\ args' = << >>
    /\ invAmp' = NoCall
    /\ ampSquared' = CZero
    /\ warned' = FALSE
    /\ ret' = [re |-> << 0, 1 >>, kin |-> << 0, 1 >>]
    /\ UNCHANGED << dirac, concVars, pauliVars >>

Next ==
    \/ Compton
    \/ Bremsstrahlung
    \/ PairProduction
    \/ TripletProduction
    \/ BetheHeitlerNucleon
    \/ eeBremsstrahlung
    \/ ePairProduction
    \/ eTripletProduction
    \/ Continue

Spec == Init /\ [][Next]_vars

(***************************************************************************)
(* Reading a finished call: the order of the tensor indices, the           *)
(* contraction and the kinematic factor of the function that was called,   *)
(* and the roles of its arguments as the signatures name them.             *)
(***************************************************************************)
Done == pc = "done"

IndexOf(name) ==
    CASE name = "Compton" -> ComptonIndex
      [] name = "Bremsstrahlung" -> BremsstrahlungIndex
      [] name = "PairProduction" -> PairProductionIndex
      [] name = "TripletProduction" -> TripletProductionIndex
      [] name = "BetheHeitlerNucleon" -> BetheHeitlerNucleonIndex
      [] name = "eeBremsstrahlung" -> eeBremsstrahlungIndex
      [] name = "ePairProduction" -> ePairProductionIndex
      [] name = "eTripletProduction" -> eTripletProductionIndex

AmpSquaredOf(name, amp, in) ==
    CASE name = "Compton" ->
           ComptonAmpSquared(amp, in.gIn, in.eIn, in.gOut, in.eOut)
      [] name = "Bremsstrahlung" ->
           BremsstrahlungAmpSquared(amp, in.eIn, in.eOut, in.gOut)
      [] name = "PairProduction" ->
           PairProductionAmpSquared(amp, in.gIn, in.eOut, in.pOut)
      [] name = "TripletProduction" ->
           TripletProductionAmpSquared(amp, in.gIn, in.eIn, in.pOut,
                                       in.eOut2, in.eOut3)
      [] name = "BetheHeitlerNucleon" ->
           BetheHeitlerNucleonAmpSquared(amp, in.gIn, in.nIn, in.pOut,
                                         in.eOut, in.nOut)
      [] name = "eeBremsstrahlung" ->
           eeBremsstrahlungAmpSquared(amp, in.eIn0, in.eIn1, in.eOut2,
                                      in.eOut3, in.gOut)
      [] name = "ePairProduction" ->
           ePairProductionAmpSquared(amp, in.eIn, in.eOut, in.lpOut, in.lnOut)
      [] name = "eTripletProduction" ->
           eTripletProductionAmpSquared(amp, in.eIn, in.eOut, in.lpOut,
                                        in.lnOut, in.teIn, in.teOut)

KinFactorOf(name, in) ==
    CASE name = "Compton" ->
           ComptonKinFactor(in.gIn, in.eIn, in.gOut, in.eOut)
      [] name = "Bremsstrahlung" ->
           BremsstrahlungKinFactor(in.eIn, in.eOut, in.gOut)
      [] name = "PairProduction" ->
           PairProductionKinFactor(in.gIn, in.eOut, in.pOut)
      [] name = "TripletProduction" ->
           TripletProductionKinFactor(in.gIn, in.eIn, in.pOut, in.eOut2,
                                      in.eOut3)
      [] name = "BetheHeitlerNucleon" ->
           BetheHeitlerNucleonKinFactor(in.gIn, in.nIn, in.pOut, in.eOut,
                                        in.nOut)
      [] name = "eeBremsstrahlung" ->
           eeBremsstrahlungKinFactor(in.eIn0, in.eIn1, in.eOut2, in.eOut3,
                                     in.gOut)
      [] name = "ePairProduction" ->
           ePairProductionKinFactor(in.eIn, in.eOut, in.lpOut, in.lnOut)
      [] name = "eTripletProduction" ->
           eTripletProductionKinFactor(in.eIn, in.eOut, in.lpOut, in.lnOut,
                                       in.teIn, in.teOut)

\* the initial-state arguments; all others are final-state particles
InitialState == { "gIn", "eIn", "nIn", "eIn0", "eIn1", "teIn" }
\* the final-state positrons and antileptons
Antileptons == { "pOut", "lpOut" }

BasisProjectors == { Projector(0), Projector(1) }
\* the index a basis projector selects
Selected(sdm) == IF sdm = Projector(0) THEN 0 ELSE 1
\* the tensor index of a call whose particles are all in basis states,
\* with particle n moved to index h
SelectedIndex(in, index, n, h) ==
    [j \in 1..Len(index) |->
        IF index[j] = n THEN h ELSE Selected(in[index[j]].SDM)]

RECURSIVE NormSqrSum(_, _, _)
\* the sum of |amp|^2 over all entries of a tensor with k indices
NormSqrSum(amp, idx, k) ==
    IF Len(idx) = k THEN CNormSqr(amp[idx])
    ELSE NormSqrSum(amp, Append(idx, 0), k) + NormSqrSum(amp, Append(idx, 1), k)

(***************************************************************************)
(* C1: when every external particle's SDM is a pure basis projector, the   *)
(* helicity contraction of every process function equals |amp|^2 of the    *)
(* single tensor entry at the selected indices.                            *)
(***************************************************************************)
AllBasis == \A n \in DOMAIN args : args[n].SDM \in BasisProjectors

C1_PureProjectorsGiveSingleEntry ==
    (Done /\ AllBasis) =>
        ampSquared =
          << CNormSqr(invAmp.num[SelectedIndex(args, IndexOf(proc), "", 0)]), 0 >>

C1_Witness ==
    /\ Done /\ AllBasis
    /\ proc = "eTripletProduction"
    /\ args.eOut.SDM = Projector(1) /\ args.teIn.SDM = Projector(0)
    /\ ampSquared[1] > 0

(***************************************************************************)
(* C2: with all SDMs the identity the helicity contraction equals the sum  *)
(* of |amp|^2 over all tensor entries, and the returned value is >= 0      *)
(* whenever the kinematic factor is positive.                              *)
(***************************************************************************)
AllUnit == \A n \in DOMAIN args : args[n].SDM = Unit

C2_UnpolarizedIsSumOfSquares ==
    (Done /\ AllUnit) =>
        /\ ampSquared = << NormSqrSum(invAmp.num, << >>, Len(IndexOf(proc))), 0 >>
        /\ ret.kin[1] > 0 => ret.re[1] >= 0

C2_Witness ==
    /\ Done /\ AllUnit
    /\ proc = "TripletProduction"
    /\ ret.kin[1] > 0 /\ ret.re[1] > 0

(***************************************************************************)
(* C3: in the helicity contraction the SDM of an initial-state particle is *)
(* indexed ket-first and the SDM of a final-state particle bra-first.  A   *)
(* particle in the pure state psi = <<c0, c1>>, all others in basis        *)
(* states, shows the order: ket-first gives |c0 a0 + c1 a1|^2, bra-first   *)
(* gives |conj(c0) a0 + conj(c1) a1|^2, where a0 and a1 are the tensor     *)
(* entries at that particle's index 0 and 1.                               *)
(* As the claim states it, every final-state particle, positrons and       *)
(* antileptons included, is bra-first (C3_AllFinalBraFirst).  In the code  *)
(* the final-state positrons and antileptons are ket-first: the amended    *)
(* statement is C3_KetFirstUnlessFinalLepton.                              *)
(***************************************************************************)
\* particle n is in the pure state psi and every other particle in a
\* basis state
OnePure(n, psi) ==
    /\ args[n].SDM = PureSDM(psi)
    /\ \A m \in DOMAIN args \ {n} : args[m].SDM \in BasisProjectors

\* |c0 a0 + c1 a1|^2 for the coefficients c of particle n
Superposed(n, c) ==
    LET a(h) == invAmp.num[SelectedIndex(args, IndexOf(proc), n, h)]
    IN  << CNormSqr(CAdd(CMul(c[1], a(0)), CMul(c[2], a(1)))), 0 >>

KetFirstValue(n, psi) == Superposed(n, psi)
BraFirstValue(n, psi) == Superposed(n, << CConj(psi[1]), CConj(psi[2]) >>)

C3_AllFinalBraFirst ==
    Done => \A n \in DOMAIN args : \A psi \in PureStates :
        OnePure(n, psi) =>
            ampSquared = IF n \in InitialState THEN KetFirstValue(n, psi)
                         ELSE BraFirstValue(n, psi)

C3_KetFirstUnlessFinalLepton ==
    Done => \A n \in DOMAIN args : \A psi \in PureStates :
        OnePure(n, psi) =>
            ampSquared = IF n \in InitialState \cup Antileptons
                         THEN KetFirstValue(n, psi)
                         ELSE BraFirstValue(n, psi)

\* a final-state positron in the state <<1, i>>, where the two orders give
\* different values
C3_Witness ==
    /\ Done
    /\ proc = "PairProduction"
    /\ OnePure("pOut", << COne, CI >>)
    /\ KetFirstValue("pOut", << COne, CI >>) # BraFirstValue("pOut", << COne, CI >>)

(***************************************************************************)
(* C4: if every external particle's SDM is Hermitian and positive          *)
(* semi-definite, the helicity contraction has zero imaginary part and     *)
(* non-negative real part.                                                 *)
(***************************************************************************)
Hermitian(m) ==
    /\ m[1][1][2] = 0 /\ m[2][2][2] = 0
    /\ m[1][2] = CConj(m[2][1])
PositiveSemiDefinite(m) ==
    /\ m[1][1][1] >= 0 /\ m[2][2][1] >= 0
    /\ m[1][1][1] * m[2][2][1] - CNormSqr(m[1][2]) >= 0
AllHermitianPSD ==
    \A n \in DOMAIN args :
        Hermitian(args[n].SDM) /\ PositiveSemiDefinite(args[n].SDM)

C4_HermitianPSDGivesRealNonNegative ==
    (Done /\ AllHermitianPSD) => (ampSquared[2] = 0 /\ ampSquared[1] >= 0)

\* every particle with the mixed, partly polarized SDM
C4_Witness ==
    /\ Done /\ AllHermitianPSD
    /\ proc = "eeBremsstrahlung"
    /\ \A n \in DOMAIN args : args[n].SDM = Mixed
    /\ ampSquared[1] > 0

(***************************************************************************)
(* C5: for every final-state particle, the value returned with that        *)
(* particle's SDM the identity equals the sum of the values returned with  *)
(* its SDM the projector onto basis state 0 and onto basis state 1, all    *)
(* other arguments the same.                                               *)
(***************************************************************************)
FinalState == (DOMAIN args) \ InitialState

\* what the function returns when particle n has the SDM sdm: the real
\* part of the contraction, its squared denominator, the kinematic factor
ReturnWith(n, sdm) ==
    LET in == [args EXCEPT ![n].SDM = sdm]
    IN  [num |-> AmpSquaredOf(proc, invAmp, in)[1],
         den |-> invAmp.den * invAmp.den,
         kin |-> KinFactorOf(proc, in)]

\* r0 + r1 of two returns with the same denominator and kinematic factor
C5_UnitIsSumOfProjectors ==
    Done => \A n \in FinalState :
        args[n].SDM = Unit =>
            LET r0 == ReturnWith(n, Projector(0))
                r1 == ReturnWith(n, Projector(1))
            IN  /\ r0.kin = ret.kin /\ r1.kin = ret.kin
                /\ ret.re = Quot(r0.num + r1.num, r0.den)

\* an outgoing photon summed over, the two projector values both non-zero
C5_Witness ==
    /\ Done
    /\ proc = "Bremsstrahlung"
    /\ args.gOut.SDM = Unit
    /\ args.eIn.SDM = Projector(1)
    /\ ret.kin[1] > 0
    /\ ReturnWith("gOut", Projector(0)).num > 0
    /\ ReturnWith("gOut", Projector(1)).num > 0

(***************************************************************************)
(* C6: for eeBremsstrahlung and for TripletProduction with equal-mass      *)
(* final electrons, the call with the two identical final-state fermions   *)
(* exchanged (eOut2 and eOut3 exchange momentum and SDM) returns the       *)
(* identical value.                                                        *)
(* As the claim states it (C6_SwapGivesSameReturn) this fails: the         *)
(* amplitude is antisymmetric and the contraction is the same, but the     *)
(* kinematic factor names eOut3 and, in TripletProduction, pOut + eOut2,   *)
(* and changes with the labels.  The amended statement is                  *)
(* C6_SwapGivesSameContraction: the contracted squared amplitude is the    *)
(* same, and the returned value is the same when the kinematic factor is.  *)
(***************************************************************************)
IdenticalFermions == {"TripletProduction", "eeBremsstrahlung"}

\* the caller's arguments with the labels eOut2 and eOut3 exchanged
Swapped(in) ==
    [n \in DOMAIN in |-> IF n = "eOut2" THEN in.eOut3
                         ELSE IF n = "eOut3" THEN in.eOut2 ELSE in[n]]

SameMomenta(k, in) == \A n \in DOMAIN in : k[n].Mom = in[n].Mom /\ k[n].Mass = in[n].Mass

\* the amplitude tensors the two functions compute for the exchanged labels
TripletProductionSwappedAmplitudes ==
    [d \in 1..NDirac, c \in 1..NKin |->
        LET k == Swapped(TripletProductionKin(c))
        IN  Stored(TripletProductionInvAmp(d, k.gIn, k.eIn, k.pOut, k.eOut2, k.eOut3))] @@ << >>
eeBremsstrahlungSwappedAmplitudes ==
    [d \in 1..NDirac, c \in 1..NKin |->
        LET k == Swapped(eeBremsstrahlungKin(c))
        IN  Stored(eeBremsstrahlungInvAmp(d, k.eIn0, k.eIn1, k.eOut2, k.eOut3, k.gOut))] @@ << >>

\* the amplitude tensor of the exchanged call
SwappedInvAmp ==
    IF proc = "TripletProduction"
    THEN TripletProductionSwappedAmplitudes[dirac,
             CHOOSE c \in 1..NKin : SameMomenta(TripletProductionKin(c), args)]
    ELSE eeBremsstrahlungSwappedAmplitudes[dirac,
             CHOOSE c \in 1..NKin : SameMomenta(eeBremsstrahlungKin(c), args)]

\* the squared amplitude of a call, as a fraction in lowest terms
Squared(ampSq, amp) ==
    << Quot(ampSq[1], amp.den * amp.den), Quot(ampSq[2], amp.den * amp.den) >>
SwappedSquared ==
    Squared(AmpSquaredOf(proc, SwappedInvAmp, Swapped(args)), SwappedInvAmp)
SwappedKinFactor == KinFactorOf(proc, Swapped(args))

\* the value a call returns, the product of its two factors
Value(r) == QuotMul(r.re, r.kin)
SwappedValue == QuotMul(SwappedSquared[1], SwappedKinFactor)

SwapCase ==
    /\ Done
    /\ proc \in IdenticalFermions
    /\ args.eOut2.Mass = args.eOut3.Mass

C6_SwapGivesSameReturn == SwapCase => SwappedValue = Value(ret)

C6_SwapGivesSameContraction ==
    SwapCase =>
        /\ SwappedSquared = Squared(ampSquared, invAmp)
        /\ SwappedKinFactor = ret.kin => SwappedValue = Value(ret)

\* exchanged fermions with different momenta and SDMs, the kinematic
\* factor unchanged and the value not zero
C6_Witness ==
    /\ SwapCase
    /\ proc = "TripletProduction"
    /\ args.eOut2.Mom # args.eOut3.Mom
    /\ args.eOut2.SDM # args.eOut3.SDM
    /\ SwappedKinFactor = ret.kin
    /\ ret.re[1] > 0

(***************************************************************************)
(* C8: after the helicity contraction every one of the eight process       *)
(* functions checks that the contracted value is real (imaginary part      *)
(* below 1e-8 of its magnitude) and non-negative, and warns when it is     *)
(* not.                                                                    *)
(***************************************************************************)
C8_EveryFunctionWarns == (Done /\ BadAmplitude(ampSquared)) => warned

(***************************************************************************)
(* C9: the returned value is the same function of the contracted value     *)
(* whether or not the warning fires: the real part of the contraction over *)
(* the squared common denominator, times the kinematic factor of the       *)
(* arguments, with no clamping.                                            *)
(***************************************************************************)
C9_ReturnIgnoresWarning ==
    Done =>
        /\ ret.re = Quot(ampSquared[1], invAmp.den * invAmp.den)
        /\ ret.kin = KinFactorOf(proc, args)

\* a call that warned and returned a negative value
C9_Witness ==
    /\ Done
    /\ warned
    /\ ampSquared[1] < 0
    /\ ret.re[1] < 0
    /\ ret.kin[1] > 0

(***************************************************************************)
(* C10: no process function modifies its caller's arguments: after the     *)
(* call every argument object has the momentum, mass and SDM it had        *)
(* before.                                                                 *)
(***************************************************************************)
C10_ArgumentsUnchanged == Done => args = argsIn

\* a call with polarized arguments has returned
C10_Witness ==
    /\ Done
    /\ proc = "eTripletProduction"
    /\ args.eIn.SDM = Mixed
    /\ args.teOut.SDM = Projector(1)
    /\ ret.re[1] # 0

(***************************************************************************)
(* Calls in progress at the same time.  TCrossSection is a collection of   *)
(* static functions without data members; what a call works on are its     *)
(* automatic variables: the copies of its arguments and the array invAmp,  *)
(* which is zero when the amplitude loop starts (value-initialized by      *)
(* "= {0}", default-constructed, or assigned 0 in the loop).  Two callers  *)
(* step through their calls in any interleaving: Enter copies the          *)
(* arguments and sets up invAmp, FillAmplitudes runs the amplitude loop,   *)
(* ContractAmplitudes the helicity contraction, Return the kinematic       *)
(* factor and the return statement, Resume takes the caller on.            *)
(***************************************************************************)
Callers == { "a", "b" }
Functions ==
    { "Compton", "Bremsstrahlung", "PairProduction", "TripletProduction",
      "BetheHeitlerNucleon", "eeBremsstrahlung", "ePairProduction",
      "eTripletProduction" }

\* variant: invAmp declared static, one array per function
StorageStatic(f, t) == << f, "a" >>

\* where the invAmp of function f called by caller t is stored: an
\* automatic variable, in the frame of that call
Storage(f, t) == << f, t >>
Places == Functions \X Callers

\* the functions whose amplitude loop only adds to invAmp
Accumulating ==
    { "TripletProduction", "BetheHeitlerNucleon", "eeBremsstrahlung" }

\* invAmp with every entry zero
ZeroAmp(f) ==
    [den |-> 1, num |-> [i \in Idx(Len(IndexOf(f))) |-> CZero] @@ << >>]

\* the arguments and the amplitudes of configuration c of function f
KinOf(f, c) ==
    CASE f = "Compton" -> ComptonKin(c)
      [] f = "Bremsstrahlung" -> BremsstrahlungKin(c)
      [] f = "PairProduction" -> PairProductionKin(c)
      [] f = "TripletProduction" -> TripletProductionKin(c)
      [] f = "BetheHeitlerNucleon" -> BetheHeitlerNucleonKin(c)
      [] f = "eeBremsstrahlung" -> eeBremsstrahlungKin(c)
      [] f = "ePairProduction" -> ePairProductionKin(c)
      [] f = "eTripletProduction" -> eTripletProductionKin(c)
AmplitudesOf(f, d, c) ==
    CASE f = "Compton" -> ComptonAmplitudes[d, c]
      [] f = "Bremsstrahlung" -> BremsstrahlungAmplitudes[d, c]
      [] f = "PairProduction" -> PairProductionAmplitudes[d, c]
      [] f = "TripletProduction" -> TripletProductionAmplitudes[d, c]
      [] f = "BetheHeitlerNucleon" -> BetheHeitlerNucleonAmplitudes[d, c]
      [] f = "eeBremsstrahlung" -> eeBremsstrahlungAmplitudes[d, c]
      [] f = "ePairProduction" -> ePairProductionAmplitudes[d, c]
      [] f = "eTripletProduction" -> eTripletProductionAmplitudes[d, c]

\* invAmp[...] += term, entry by entry, on the common denominator
AddAmp(A, B) ==
    LET den == Lcm(A.den, B.den)
        fa == den \div A.den
        fb == den \div B.den
    IN  [den |-> den,
         num |-> [i \in DOMAIN B.num |->
                     CAdd(CScale(fa, A.num[i]), CScale(fb, B.num[i]))] @@ << >>]

\* the amplitude loop run on the array as it stands
AmplitudeLoop(f, held, amp) ==
    IF f \in Accumulating THEN AddAmp(held, amp) ELSE amp

\* the SDMs the concurrent callers pass: all particles unpolarized
CallerSDMs == { Unit }

IdleFrame == [pc |-> "idle"]

ConcInit ==
    /\ dirac \in 1..NDirac
    /\ Idle
    /\ PauliIdle
    /\ frame = [t \in Callers |-> IdleFrame]
    /\ storage = [p \in Places |-> ZeroAmp(p[1])]

ConcStep(t, fr, st) ==
    /\ frame' = [frame EXCEPT ![t] = fr]
    /\ storage' = st
    /\ UNCHANGED << dirac, callVars, pauliVars >>

Enter ==
    \E t \in Callers, f \in Functions, c \in 1..NKin, X \in CallerSDMs :
        /\ frame[t].pc = "idle"
        /\ LET k == KinOf(f, c)
               in == WithSDM(k, [n \in DOMAIN k |-> X])
           IN  ConcStep(t, [pc |-> "entered", proc |-> f, c |-> c,
                            args |-> CallerObjects(in)],
                        [storage EXCEPT ![Storage(f, t)] = ZeroAmp(f)])

FillAmplitudes ==
    \E t \in Callers :
        /\ frame[t].pc = "entered"
        /\ LET fr == frame[t]
               at == Storage(fr.proc, t)
           IN  ConcStep(t, [fr EXCEPT !.pc = "amplitudes"],
                        [storage EXCEPT ![at] =
                            AmplitudeLoop(fr.proc, storage[at],
                                          AmplitudesOf(fr.proc, dirac, fr.c))])

ContractAmplitudes ==
    \E t \in Callers :
        /\ frame[t].pc = "amplitudes"
        /\ LET fr == frame[t]
               amp == storage[Storage(fr.proc, t)]
           IN  ConcStep(t, [pc |-> "contracted", proc |-> fr.proc, c |-> fr.c,
                            args |-> fr.args, den |-> amp.den,
                            ampSquared |-> AmpSquaredOf(fr.proc, amp, fr.args)],
                        storage)

Return ==
    \E t \in Callers :
        /\ frame[t].pc = "contracted"
        /\ LET fr == frame[t]
           IN  ConcStep(t, [pc |-> "returned", proc |-> fr.proc, c |-> fr.c,
                            args |-> fr.args,
                            ret |-> DiffXsect(fr.ampSquared, fr.den * fr.den,
                                              KinFactorOf(fr.proc, fr.args))],
                        [storage EXCEPT ![Storage(fr.proc, t)] = ZeroAmp(fr.proc)])

Resume ==
    \E t \in Callers :
        /\ frame[t].pc = "returned"
        /\ ConcStep(t, IdleFrame, storage)

ConcNext ==
    \/ Enter
    \/ FillAmplitudes
    \/ ContractAmplitudes
    \/ Return
    \/ Resume

ConcSpec == ConcInit /\ [][ConcNext]_vars

(***************************************************************************)
(* C11: a process function's result depends only on its own arguments:     *)
(* in any sequence or interleaving of calls, each call returns the value   *)
(* it would return if it were the only call ever made.                     *)
(***************************************************************************)
\* what the call of frame fr returns when it is the only call made
AloneReturn(fr) ==
    LET amp == AmplitudesOf(fr.proc, dirac, fr.c)
    IN  [re |-> Quot(AmpSquaredOf(fr.proc, amp, fr.args)[1], amp.den * amp.den),
         kin |-> KinFactorOf(fr.proc, fr.args)]

C11_CallsDoNotInterfere ==
    \A t \in Callers :
        frame # << >> /\ frame[t].pc = "returned" => frame[t].ret = AloneReturn(frame[t])

\* a call returned a non-zero value while another call of the same
\* function with other arguments was past its amplitude loop
C11_Witness ==
    /\ frame # << >>
    /\ frame.a.pc = "returned"
    /\ frame.b.pc = "amplitudes"
    /\ frame.a.proc = "TripletProduction"
    /\ frame.b.proc = "TripletProduction"
    /\ frame.a.c # frame.b.c
    /\ frame.a.ret.re[1] # 0

(***************************************************************************)
(* The Pauli algebra package (TPauliSpinor.cxx).                           *)
(*                                                                         *)
(* Numbers.  An LDouble_t is a quotient <<num, den>>, a Complex_t a pair   *)
(* <<re, im>> of them.  Every arithmetic operation rounds its result to    *)
(* the number of significant bits the variable mantissa gives (round to    *)
(* nearest, ties to even); with mantissa = 0 nothing is rounded and the    *)
(* arithmetic is that of the real numbers.                                 *)
(***************************************************************************)
RECURSIVE Pow2(_)
Pow2(n) == IF n = 0 THEN 1 ELSE 2 * Pow2(n - 1)

RECURSIVE RoundScaled(_, _, _, _, _)
\* n/d > 0 rounded to p significant bits, times up/down
RoundScaled(n, d, up, down, p) ==
    IF n >= d * Pow2(p) THEN RoundScaled(n, 2 * d, 2 * up, down, p)
    ELSE IF n < d * Pow2(p - 1) THEN RoundScaled(2 * n, d, up, 2 * down, p)
    ELSE LET m == n \div d
             r == n % d
             nearest == IF 2 * r > d \/ (2 * r = d /\ m % 2 = 1)
                        THEN m + 1 ELSE m
         IN  Quot(nearest * up, down)

\* the LDouble_t nearest to x
Fl(x) ==
    IF mantissa = 0 \/ x[1] = 0 THEN x
    ELSE LET r == RoundScaled(Abs(x[1]), x[2], 1, 1, mantissa)
         IN  << (IF x[1] < 0 THEN -1 ELSE 1) * r[1], r[2] >>

R(n) == << n, 1 >>
RNeg(x) == << -x[1], x[2] >>
RAdd(x, y) == Fl(QuotAdd(x, y))
RSub(x, y) == Fl(QuotAdd(x, RNeg(y)))
RMul(x, y) == Fl(QuotMul(x, y))
RDiv(x, y) == Fl(QuotMul(x, QuotInv(y)))
RLess(x, y) == x[1] * y[2] < y[1] * x[2]

Z(re, im) == << R(re), R(im) >>
ZReal(x) == << x, R(0) >>
ZZero == Z(0, 0)
ZOne == Z(1, 0)
Zi == Z(0, 1)
ZNeg(z) == << RNeg(z[1]), RNeg(z[2]) >>
ZConj(z) == << z[1], RNeg(z[2]) >>
ZAdd(z, w) == << RAdd(z[1], w[1]), RAdd(z[2], w[2]) >>
ZSub(z, w) == << RSub(z[1], w[1]), RSub(z[2], w[2]) >>
ZMul(z, w) ==
    << RSub(RMul(z[1], w[1]), RMul(z[2], w[2])),
       RAdd(RMul(z[1], w[2]), RMul(z[2], w[1])) >>
ZDiv(z, w) ==
    LET n == RAdd(RMul(w[1], w[1]), RMul(w[2], w[2]))
    IN  << RDiv(RAdd(RMul(z[1], w[1]), RMul(z[2], w[2])), n),
           RDiv(RSub(RMul(z[2], w[1]), RMul(z[1], w[2])), n) >>
\* LDouble_t * Complex_t and Complex_t / LDouble_t
ZScale(x, z) == << RMul(x, z[1]), RMul(x, z[2]) >>
ZDivR(z, x) == << RDiv(z[1], x), RDiv(z[2], x) >>
\* abs(z) squared
Abs2(z) == QuotAdd(QuotMul(z[1], z[1]), QuotMul(z[2], z[2]))
\* abs(z) < x, for x >= 0
ZAbsLess(z, x) ==
    RLess(QuotAdd(QuotMul(z[1], z[1]), QuotMul(z[2], z[2])), QuotMul(x, x))

(***************************************************************************)
(* Angles.  An angle is << k, t >>, standing for k*pi + t*alpha, where     *)
(* alpha is the angle with cos(alpha/2) = 3/5 and sin(alpha/2) = 4/5; the  *)
(* package only ever takes the cosine and sine of half an angle.           *)
(***************************************************************************)
Angle(k, t) == << k, t >>
\* cos(k*pi/2) and sin(k*pi/2)
CosQuarter(k) == << 1, 0, -1, 0 >>[(k % 4) + 1]
SinQuarter(k) == << 0, 1, 0, -1 >>[(k % 4) + 1]
CosHalf(angle) ==
    IF angle[2] = 0 THEN Fl(R(CosQuarter(angle[1])))
    ELSE Fl(Quot(3 * CosQuarter(angle[1]) - 4 * SinQuarter(angle[1]), 5))
SinHalf(angle) ==
    IF angle[2] = 0 THEN Fl(R(SinQuarter(angle[1])))
    ELSE Fl(Quot(3 * SinQuarter(angle[1]) + 4 * CosQuarter(angle[1]), 5))

(***************************************************************************)
(* TPauliMatrix: fMatrix[i][j] is m[i + 1][j + 1].                         *)
(***************************************************************************)
Matrix(m00, m01, m10, m11) == << << m00, m01 >>, << m10, m11 >> >>

Zero == Matrix(ZZero, ZZero, ZZero, ZZero)
Determ(m) == ZSub(ZMul(m[1][1], m[2][2]), ZMul(m[1][2], m[2][1]))
Adjoint(m) ==
    Matrix(ZConj(m[1][1]), ZConj(m[2][1]), ZConj(m[1][2]), ZConj(m[2][2]))
IsHermetian(m, resolution) ==
    /\ ZAbsLess(ZSub(m[1][1], ZConj(m[1][1])), resolution)
    /\ ZAbsLess(ZSub(m[2][2], ZConj(m[2][2])), resolution)
    /\ ZAbsLess(ZSub(m[1][2], ZConj(m[2][1])), resolution)

EPauliIndex == { "kPauliOne", "kPauliSigma1", "kPauliSigma2", "kPauliSigma3" }

\* TPauliMatrix::TPauliMatrix(const EPauliIndex i)
\* variant: sigma_2 with +i above and -i below the diagonal
PauliMatrixSigma2Transposed(i) ==
    CASE i = "kPauliOne" -> Matrix(ZOne, ZZero, ZZero, ZOne)
      [] i = "kPauliSigma1" -> Matrix(ZZero, ZOne, ZOne, ZZero)
      [] i = "kPauliSigma2" -> Matrix(ZZero, Zi, ZNeg(Zi), ZZero)
      [] i = "kPauliSigma3" -> Matrix(ZOne, ZZero, ZZero, ZNeg(ZOne))
      [] OTHER -> Zero

PauliMatrix(i) ==
    CASE i = "kPauliOne" -> Matrix(Z(1, 0), Z(0, 0), Z(0, 0), Z(1, 0))
      [] i = "kPauliSigma1" -> Matrix(Z(0, 0), Z(1, 0), Z(1, 0), Z(0, 0))
      [] i = "kPauliSigma2" -> Matrix(Z(0, 0), ZNeg(Zi), Zi, Z(0, 0))
      [] i = "kPauliSigma3" -> Matrix(Z(1, 0), Z(0, 0), Z(0, 0), Z(-1, 0))
      [] OTHER -> Zero

\* Decompose(LDouble_t &a, TThreeVectorReal &b)
\* variant: the coefficients are computed without the Hermiticity test
DecomposeRealUnchecked(m, resolution) ==
    [error |-> FALSE,
     a |-> RDiv(ZAdd(m[1][1], m[2][2])[1], R(2)),
     b |-> << RDiv(ZAdd(m[2][1], m[1][2])[1], R(2)),
              RDiv(ZSub(m[2][1], m[1][2])[2], R(2)),
              RDiv(ZSub(m[1][1], m[2][2])[1], R(2)) >>]

DecomposeReal(m, resolution) ==
    IF ~IsHermetian(m, resolution)
    THEN [error |-> TRUE, a |-> R(0), b |-> << R(0), R(0), R(0) >>]
    ELSE [error |-> FALSE,
          a |-> RDiv(ZAdd(m[1][1], m[2][2])[1], R(2)),
          b |-> << RDiv(ZAdd(m[2][1], m[1][2])[1], R(2)),
                   RDiv(ZSub(m[2][1], m[1][2])[2], R(2)),
                   RDiv(ZSub(m[1][1], m[2][2])[1], R(2)) >>]

\* Decompose(Complex_t &a, TThreeVectorComplex &b)
DecomposeComplex(m) ==
    [error |-> FALSE,
     a |-> ZDivR(ZAdd(m[1][1], m[2][2]), R(2)),
     b |-> << ZDivR(ZAdd(m[2][1], m[1][2]), R(2)),
              ZDiv(ZSub(m[2][1], m[1][2]), ZScale(R(2), Zi)),
              ZDivR(ZSub(m[1][1], m[2][2]), R(2)) >>]

\* operator*=(const TPauliMatrix &source): copy * source
\* variant: the product is taken with the argument on the left
MulAssignReversed(copy, source) ==
    Matrix(ZAdd(ZMul(source[1][1], copy[1][1]), ZMul(source[1][2], copy[2][1])),
           ZAdd(ZMul(source[1][1], copy[1][2]), ZMul(source[1][2], copy[2][2])),
           ZAdd(ZMul(source[2][1], copy[1][1]), ZMul(source[2][2], copy[2][1])),
           ZAdd(ZMul(source[2][1], copy[1][2]), ZMul(source[2][2], copy[2][2])))

MulAssign(copy, source) ==
    Matrix(ZAdd(ZMul(copy[1][1], source[1][1]), ZMul(copy[1][2], source[2][1])),
           ZAdd(ZMul(copy[1][1], source[1][2]), ZMul(copy[1][2], source[2][2])),
           ZAdd(ZMul(copy[2][1], source[1][1]), ZMul(copy[2][2], source[2][1])),
           ZAdd(ZMul(copy[2][1], source[1][2]), ZMul(copy[2][2], source[2][2])))

\* Invert(): the matrix it leaves and whether it reported an error
\* variant: the [0][0] entry is not saved before it is overwritten
InvertNoTemp(m, resolution) ==
    LET determ == Determ(m)
    IN  IF ZAbsLess(determ, resolution)
        THEN [error |-> TRUE, m |-> m]
        ELSE LET m00 == ZDiv(m[2][2], determ)
             IN  [error |-> FALSE,
                  m |-> Matrix(m00, ZDiv(ZNeg(m[1][2]), determ),
                               ZDiv(ZNeg(m[2][1]), determ), ZDiv(m00, determ))]

\* variant: a determinant of magnitude Resolution counts as singular too
InvertInclusive(m, resolution) ==
    LET determ == Determ(m)
    IN  IF ZAbsLess(determ, resolution) \/ ~ZAbsLess(ZReal(resolution), Abs2(determ))
        THEN [error |-> TRUE, m |-> m]
        ELSE LET temp == m[1][1]
             IN  [error |-> FALSE,
                  m |-> Matrix(ZDiv(m[2][2], determ), ZDiv(ZNeg(m[1][2]), determ),
                               ZDiv(ZNeg(m[2][1]), determ), ZDiv(temp, determ))]

Invert(m, resolution) ==
    LET determ == Determ(m)
    IN  IF ZAbsLess(determ, resolution)
        THEN [error |-> TRUE, m |-> m]
        ELSE LET temp == m[1][1]
             IN  [error |-> FALSE,
                  m |-> Matrix(ZDiv(m[2][2], determ), ZDiv(ZNeg(m[1][2]), determ),
                               ZDiv(ZNeg(m[2][1]), determ), ZDiv(temp, determ))]

\* operator/=(const TPauliMatrix &source): *this *= inverse of source
DivAssign(copy, source, resolution) ==
    MulAssign(copy, Invert(source, resolution).m)

\* Compose(const LDouble_t a, const TThreeVectorReal &polar)
\* variant: the two off-diagonal entries change places
ComposeRealTransposed(a, polar) ==
    Matrix(ZReal(RAdd(a, polar[3])),
           ZAdd(ZReal(polar[1]), ZScale(polar[2], Zi)),
           ZSub(ZReal(polar[1]), ZScale(polar[2], Zi)),
           ZReal(RSub(a, polar[3])))

ComposeReal(a, polar) ==
    Matrix(ZReal(RAdd(a, polar[3])),
           ZSub(ZReal(polar[1]), ZScale(polar[2], Zi)),
           ZAdd(ZReal(polar[1]), ZScale(polar[2], Zi)),
           ZReal(RSub(a, polar[3])))

\* Compose(const Complex_t &a, const TThreeVectorComplex &polar)
ComposeComplex(a, polar) ==
    Matrix(ZAdd(a, polar[3]),
           ZSub(polar[1], ZMul(Zi, polar[2])),
           ZAdd(polar[1], ZMul(Zi, polar[2])),
           ZSub(a, polar[3]))

\* TThreeVectorComplex b(axis); b.Normalize(1): the axis <<x, y, z>> of
\* integer length, scaled to length 1
Normalize(axis) ==
    LET len == ISqrt(axis[1] * axis[1] + axis[2] * axis[2] + axis[3] * axis[3])
    IN  << ZReal(Fl(Quot(axis[1], len))), ZReal(Fl(Quot(axis[2], len))),
           ZReal(Fl(Quot(axis[3], len))) >>

\* SetRotation(const TUnitVector &axis, const LDouble_t angle)
\* variant: the multiple of pi in the angle is not halved
SetRotationWholeTurns(axis, angle) ==
    LET whole == Angle(2 * angle[1], angle[2])
        a == ZReal(CosHalf(whole))
        n == Normalize(axis)
        f == ZScale(SinHalf(whole), Zi)
        b == << ZMul(n[1], f), ZMul(n[2], f), ZMul(n[3], f) >>
    IN  ComposeComplex(a, b)

SetRotation(axis, angle) ==
    LET a == ZReal(CosHalf(angle))
        n == Normalize(axis)
        f == ZScale(SinHalf(angle), Zi)
        b == << ZMul(n[1], f), ZMul(n[2], f), ZMul(n[3], f) >>
    IN  ComposeComplex(a, b)

yhat == << 0, 1, 0 >>
zhat == << 0, 0, 1 >>

\* SetRotation(const LDouble_t phi, const LDouble_t theta, const LDouble_t psi)
SetRotationEuler(phi, theta, psi) ==
    MulAssign(MulAssign(SetRotation(zhat, psi), SetRotation(yhat, theta)),
              SetRotation(zhat, phi))

\* TThreeRotation: the axis and the angle the rotation was set with.
\* GetAxis gives an axis and an angle on [-pi, pi] of the same rotation of
\* space: whole turns are dropped.
ThreeRotation(axis, angle) == [axis |-> axis, angle |-> angle]
GetAxis(rotOp) ==
    LET k == rotOp.angle[1]
        t == rotOp.angle[2]
    IN  [axis |-> rotOp.axis,
         angle |-> IF t = 0 THEN Angle(k % 2, 0)
                   ELSE Angle(IF k % 2 = 0 THEN 0 ELSE -1, t)]

\* SetRotation(const TThreeRotation &rotOp)
SetRotationOp(rotOp) ==
    LET g == GetAxis(rotOp)
    IN  SetRotation(g.axis, g.angle)

\* SetRotation(const TThreeVectorReal &axis): the angle is the length of
\* the vector, here kept beside its direction
SetRotationVector(v) == SetRotation(v.axis, v.angle)

\* TPauliMatrix::SimTransform(const TPauliMatrix &m), m not the receiver
SimTransform(this, m, resolution) ==
    LET oldOp == this
    IN  DivAssign(MulAssign(m, oldOp), m, resolution)

\* operator*=(source) with source the receiver itself: copy holds the
\* receiver before the call, and the entries of source are read from the
\* receiver as the four assignments have left it so far
MulAssignSelf(this) ==
    LET copy == this
        f11 == ZAdd(ZMul(copy[1][1], this[1][1]), ZMul(copy[1][2], this[2][1]))
        f12 == ZAdd(ZMul(copy[1][1], this[1][2]), ZMul(copy[1][2], this[2][2]))
        f21 == ZAdd(ZMul(copy[2][1], f11), ZMul(copy[2][2], this[2][1]))
        f22 == ZAdd(ZMul(copy[2][1], f12), ZMul(copy[2][2], this[2][2]))
    IN  Matrix(f11, f12, f21, f22)

\* SimTransform(m) with m the receiver itself: *this = m leaves the
\* receiver, *this *= oldOp multiplies it by the copy, and *this /= m
\* divides the product by m, which is the receiver and so the product
SimTransformSelf(this, resolution) ==
    LET oldOp == this
        product == MulAssign(this, oldOp)
    IN  DivAssign(product, product, resolution)

\* UniTransform(m) with m the receiver itself: mtemp keeps the argument as
\* it was passed
UniTransformSelf(this) ==
    LET mtemp == this
        oldOp == this
    IN  MulAssign(MulAssign(this, oldOp), Adjoint(mtemp))

\* TPauliMatrix::UniTransform(const TPauliMatrix &m)
UniTransform(this, m) ==
    LET mtemp == m
        oldOp == this
    IN  MulAssign(MulAssign(m, oldOp), Adjoint(mtemp))

(***************************************************************************)
(* TPauliSpinor: fSpinor[i] is s[i + 1].                                   *)
(***************************************************************************)
\* TPauliSpinor::SetPolar(theta, phi)
\* variant: the azimuth enters as a relative phase of the second component
SetPolarRelativePhase(theta, phi) ==
    LET sinHalfTheta == SinHalf(theta)
        cosHalfTheta == CosHalf(theta)
        sinHalfPhi == SinHalf(phi)
        cosHalfPhi == CosHalf(phi)
        phase == ZAdd(ZReal(cosHalfPhi), ZScale(sinHalfPhi, Zi))
    IN  << ZReal(cosHalfTheta), ZScale(sinHalfTheta, ZMul(phase, phase)) >>

SetPolar(theta, phi) ==
    LET sinHalfTheta == SinHalf(theta)
        cosHalfTheta == CosHalf(theta)
        sinHalfPhi == SinHalf(phi)
        cosHalfPhi == CosHalf(phi)
    IN  << ZScale(cosHalfTheta, ZSub(ZReal(cosHalfPhi), ZScale(sinHalfPhi, Zi))),
           ZScale(sinHalfTheta, ZAdd(ZReal(cosHalfPhi), ZScale(sinHalfPhi, Zi))) >>

\* variant: no copy of the receiver; the second component is computed from
\* the new first component
OperateInPlace(this, xOp) ==
    LET s0 == ZAdd(ZMul(xOp[1][1], this[1]), ZMul(xOp[1][2], this[2]))
    IN  << s0, ZAdd(ZMul(xOp[2][1], s0), ZMul(xOp[2][2], this[2])) >>

\* TPauliSpinor::Operate(const TPauliMatrix &xOp)
Operate(this, xOp) ==
    LET temp == this
    IN  << ZAdd(ZMul(xOp[1][1], temp[1]), ZMul(xOp[1][2], temp[2])),
           ZAdd(ZMul(xOp[2][1], temp[1]), ZMul(xOp[2][2], temp[2])) >>

\* operator*(const TPauliMatrix &pmOp, const TPauliSpinor &vec)
Times(pmOp, vec) ==
    LET result == vec
    IN  Operate(result, pmOp)

\* TPauliSpinor::Rotate, the four overloads
Rotate(this, axis, angle) == Operate(this, SetRotation(axis, angle))
RotateEuler(this, phi, theta, psi) ==
    Operate(this, SetRotationEuler(phi, theta, psi))
RotateOp(this, rotOp) == Operate(this, SetRotationOp(rotOp))
RotateVector(this, v) == Operate(this, SetRotationVector(v))

(***************************************************************************)
(* The arguments offered to the Pauli package.                             *)
(***************************************************************************)
\* values TPauliMatrix::fResolution is set to
ResolutionSet == { Quot(1, 8), R(1), R(2) }

RealScalars == { R(0), R(1), R(-2) }
RealVectors ==
    { << R(0), R(0), R(0) >>, << R(1), R(0), R(0) >>, << R(0), R(1), R(0) >>,
      << R(0), R(0), R(1) >>, << R(1), R(2), R(3) >>,
      << Quot(1, 2), R(-1), Quot(1, 16) >> }
ComplexScalars == { ZOne, Zi, Z(1, 1) }
ComplexVectors ==
    { << ZZero, ZZero, ZZero >>, << ZOne, Zi, ZZero >>,
      << Zi, Z(1, 1), Z(2, 0) >>, << Z(0, -1), Z(2, 1), Z(1, 1) >>,
      << ZOne, ZZero, << Quot(1, 16), R(0) >> >> }

\* matrices passed as arguments: the unit matrix, sigma2, a shear, a
\* matrix of determinant 2, a singular one, one of determinant 1/2
ArgMatrices ==
    { PauliMatrix("kPauliOne"), PauliMatrix("kPauliSigma2"),
      Matrix(Z(1, 0), Z(1, 0), Z(0, 0), Z(1, 0)),
      Matrix(Z(1, 0), Z(0, 1), Z(0, 0), Z(2, 0)),
      Matrix(Z(1, 0), Z(1, 0), Z(1, 0), Z(1, 0)),
      Matrix(Z(1, 0), Z(0, 0), Z(0, 1), << Quot(1, 2), R(0) >>) }

Pi == Angle(1, 0)
TwoPi == Angle(2, 0)
FourPi == Angle(4, 0)
Alpha == Angle(0, 1)

Thetas == { Angle(0, 0), Pi, Alpha }
Phis == { Angle(0, 0), Pi, TwoPi, Alpha }
Axes == { zhat, << 0, 3, 4 >> }
Angles == { TwoPi, FourPi, Alpha }
Eulers == { << Angle(0, 0), TwoPi, Angle(0, 0) >>, << Alpha, Pi, Angle(0, 0) >> }
ThreeRotations ==
    { ThreeRotation(zhat, TwoPi), ThreeRotation(<< 0, 3, 4 >>, Angle(2, 1)),
      ThreeRotation(<< 0, 3, 4 >>, FourPi) }
ThreeVectors == { [axis |-> << 1, 0, 0 >>, angle |-> TwoPi] }
\* matrices applied to spinors
SpinorArgMatrices ==
    { PauliMatrix("kPauliSigma2"),
      Matrix(Z(1, 0), Z(1, 0), Z(0, 0), Z(1, 0)) }

(***************************************************************************)
(* The Pauli package as a state machine: an object is constructed and set  *)
(* (the setters overwrite every component, so they are offered on the new  *)
(* object only), then an operation is applied to a matrix, a sequence of   *)
(* operations to a spinor.  last keeps, of the                             *)
(* operation last applied, the receiver before it, the argument, the       *)
(* output arguments or the returned object, whether Error was called, and  *)
(* what the call returned; of a matrix it also keeps how it was set.       *)
(***************************************************************************)
PauliInit ==
    /\ dirac = 1
    /\ Idle
    /\ ConcIdle
    /\ fResolution \in ResolutionSet
    /\ mantissa = 0
    /\ fMatrix = << >>
    /\ fSpinor = << >>
    /\ depth = 0
    /\ last = << >>

PauliStep(m, sp, d, l) ==
    /\ fMatrix' = m
    /\ fSpinor' = sp
    /\ depth' = d
    /\ last' = l
    /\ UNCHANGED << dirac, callVars, concVars, fResolution, mantissa >>

Made(how, with) ==
    [made |-> [how |-> how, with |-> with], op |-> "none", pre |-> << >>,
     arg |-> << >>, out |-> << >>, error |-> FALSE, returned |-> "this"]
Applied(op, pre, arg, out, error, returned) ==
    [made |-> IF fMatrix # << >> THEN last.made ELSE << >>, op |-> op,
     pre |-> pre, arg |-> arg, out |-> out, error |-> error,
     returned |-> returned]

NoObject == fMatrix = << >> /\ fSpinor = << >>
SetMatrix(how, with, m) == NoObject /\ PauliStep(m, << >>, 0, Made(how, with))
SetSpinor(how, with, sp) == NoObject /\ PauliStep(<< >>, sp, 0, Made(how, with))
\* a matrix operation takes its receiver as the setters left it
MatrixLive == fMatrix # << >> /\ last.op = "none"
SpinorLive == fSpinor # << >> /\ depth < MaxSpinorOps

NewPauliMatrix ==
    \E i \in EPauliIndex \cup { "other" } :
        SetMatrix("PauliMatrix", i, PauliMatrix(i))

CallComposeReal ==
    \E a \in RealScalars, b \in RealVectors :
        SetMatrix("ComposeReal", << a, b >>, ComposeReal(a, b))

CallComposeComplex ==
    \E a \in ComplexScalars, b \in ComplexVectors :
        SetMatrix("ComposeComplex", << a, b >>, ComposeComplex(a, b))

CallSetRotation ==
    \E axis \in Axes, angle \in Angles :
        SetMatrix("SetRotation", << axis, angle >>, SetRotation(axis, angle))

CallSetRotationEuler ==
    \E e \in Eulers :
        SetMatrix("SetRotationEuler", e, SetRotationEuler(e[1], e[2], e[3]))

CallSetRotationOp ==
    \E rotOp \in ThreeRotations :
        SetMatrix("SetRotationOp", rotOp, SetRotationOp(rotOp))

CallDecomposeReal ==
    /\ MatrixLive
    /\ LET r == DecomposeReal(fMatrix, fResolution)
       IN  PauliStep(fMatrix, fSpinor, depth + 1,
                     Applied("DecomposeReal", fMatrix, << >>,
                             << r.a, r.b >>, r.error, "void"))

CallDecomposeComplex ==
    /\ MatrixLive
    /\ LET r == DecomposeComplex(fMatrix)
       IN  PauliStep(fMatrix, fSpinor, depth + 1,
                     Applied("DecomposeComplex", fMatrix, << >>,
                             << r.a, r.b >>, r.error, "void"))

\* the receivers that are passed as their own argument: those with entries
\* in eighths at most, whose products and inverses stay in range
SelfArgument(m) ==
    \A i \in 1..2, j \in 1..2, part \in 1..2 : m[i][j][part][2] <= 8

CallMulAssign ==
    /\ MatrixLive
    /\ \/ \E source \in ArgMatrices :
            PauliStep(MulAssign(fMatrix, source), fSpinor, depth + 1,
                      Applied("MulAssign", fMatrix, source, << >>, FALSE,
                              "this"))
       \* the receiver passed as its own argument
       \/ /\ SelfArgument(fMatrix)
          /\ PauliStep(MulAssignSelf(fMatrix), fSpinor, depth + 1,
                       Applied("MulAssign(*this)", fMatrix, fMatrix, << >>, FALSE,
                               "this"))

CallInvert ==
    /\ MatrixLive
    /\ LET r == Invert(fMatrix, fResolution)
       IN  PauliStep(r.m, fSpinor, depth + 1,
                     Applied("Invert", fMatrix, << >>, << >>, r.error, "this"))

CallSimTransform ==
    /\ MatrixLive
    /\ \/ \E m \in ArgMatrices :
            PauliStep(SimTransform(fMatrix, m, fResolution), fSpinor, depth + 1,
                      Applied("SimTransform", fMatrix, m, << >>,
                              Invert(m, fResolution).error, "this"))
       \* the receiver passed as its own argument
       \/ /\ SelfArgument(fMatrix)
          /\ PauliStep(SimTransformSelf(fMatrix, fResolution), fSpinor,
                       depth + 1,
                       Applied("SimTransform(*this)", fMatrix, fMatrix, << >>,
                               Invert(MulAssign(fMatrix, fMatrix),
                                      fResolution).error, "this"))

CallUniTransform ==
    /\ MatrixLive
    /\ \/ \E m \in ArgMatrices :
            PauliStep(UniTransform(fMatrix, m), fSpinor, depth + 1,
                      Applied("UniTransform", fMatrix, m, << >>, FALSE, "this"))
       \* the receiver passed as its own argument
       \/ /\ SelfArgument(fMatrix)
          /\ PauliStep(UniTransformSelf(fMatrix), fSpinor, depth + 1,
                       Applied("UniTransform(*this)", fMatrix, fMatrix, << >>,
                               FALSE, "this"))

CallSetPolar ==
    \E theta \in Thetas, phi \in Phis :
        SetSpinor("SetPolar", << theta, phi >>, SetPolar(theta, phi))

CallOperate ==
    /\ SpinorLive
    /\ \E xOp \in SpinorArgMatrices :
         PauliStep(fMatrix, Operate(fSpinor, xOp), depth + 1,
                   Applied("Operate", fSpinor, xOp, << >>, FALSE, "this"))

CallTimes ==
    /\ SpinorLive
    /\ \E pmOp \in SpinorArgMatrices :
         PauliStep(fMatrix, fSpinor, depth + 1,
                   Applied("Times", fSpinor, pmOp, Times(pmOp, fSpinor),
                           FALSE, "result"))

CallRotate ==
    /\ SpinorLive
    /\ \E axis \in Axes, angle \in Angles :
         PauliStep(fMatrix, Rotate(fSpinor, axis, angle), depth + 1,
                   Applied("Rotate", fSpinor, << axis, angle >>, << >>,
                           FALSE, "this"))

CallRotateEuler ==
    /\ SpinorLive
    /\ \E e \in Eulers :
         PauliStep(fMatrix, RotateEuler(fSpinor, e[1], e[2], e[3]), depth + 1,
                   Applied("RotateEuler", fSpinor, e, << >>, FALSE, "this"))

CallRotateOp ==
    /\ SpinorLive
    /\ \E rotOp \in ThreeRotations :
         PauliStep(fMatrix, RotateOp(fSpinor, rotOp), depth + 1,
                   Applied("RotateOp", fSpinor, rotOp, << >>, FALSE, "this"))

CallRotateVector ==
    /\ SpinorLive
    /\ \E v \in ThreeVectors :
         PauliStep(fMatrix, RotateVector(fSpinor, v), depth + 1,
                   Applied("RotateVector", fSpinor, v, << >>, FALSE, "this"))

PauliNext ==
    \/ NewPauliMatrix
    \/ CallComposeReal
    \/ CallComposeComplex
    \/ CallSetRotation
    \/ CallSetRotationEuler
    \/ CallSetRotationOp
    \/ CallDecomposeReal
    \/ CallDecomposeComplex
    \/ CallMulAssign
    \/ CallInvert
    \/ CallSimTransform
    \/ CallUniTransform
    \/ CallSetPolar
    \/ CallOperate
    \/ CallTimes
    \/ CallRotate
    \/ CallRotateEuler
    \/ CallRotateOp
    \/ CallRotateVector

PauliSpec == PauliInit /\ [][PauliNext]_vars

\* the matrix class with LDouble_t rounding to Mantissa significant bits
PauliFloatInit ==
    /\ dirac = 1
    /\ Idle
    /\ ConcIdle
    /\ fResolution \in ResolutionSet
    /\ mantissa = Mantissa
    /\ fMatrix = << >>
    /\ fSpinor = << >>
    /\ depth = 0
    /\ last = << >>

PauliFloatNext ==
    \/ NewPauliMatrix
    \/ CallComposeReal
    \/ CallComposeComplex
    \/ CallSetRotation
    \/ CallSetRotationEuler
    \/ CallSetRotationOp
    \/ CallDecomposeReal
    \/ CallDecomposeComplex
    \/ CallMulAssign
    \/ CallInvert
    \/ CallSimTransform
    \/ CallUniTransform

PauliFloatSpec == PauliFloatInit /\ [][PauliFloatNext]_vars

(***************************************************************************)
(* C12: for any matrix M whose determinant is not zero, the matrix Invert  *)
(* produces, multiplied with the original M, is the 2x2 identity.          *)
(***************************************************************************)
Inverted == fMatrix # << >> /\ last.op = "Invert"
UnitMatrix == PauliMatrix("kPauliOne")

\* as stated: every matrix with a non-zero determinant
C12_InvertTimesOriginalIsUnitIfNonSingular ==
    Inverted /\ Determ(last.pre) # ZZero
        => MulAssign(fMatrix, last.pre) = UnitMatrix

\* C12 as the code has it: for any matrix M whose determinant has a
\* magnitude of at least Resolution, the matrix Invert produces,
\* multiplied with the original M, is the 2x2 identity
C12_InvertTimesOriginalIsUnit ==
    Inverted /\ ~ZAbsLess(Determ(last.pre), fResolution)
        => MulAssign(fMatrix, last.pre) = UnitMatrix

\* a matrix that is neither diagonal nor its own inverse was inverted
C12_Witness ==
    /\ Inverted
    /\ ~last.error
    /\ last.pre[1][2] # ZZero
    /\ fMatrix # last.pre
    /\ MulAssign(fMatrix, last.pre) = UnitMatrix

(***************************************************************************)
(* C13: Invert on a matrix whose determinant has a magnitude strictly      *)
(* below Resolution reports an error and leaves all four entries           *)
(* unchanged; when the magnitude is greater than or equal to Resolution it *)
(* replaces the matrix by adjugate/determinant.                            *)
(***************************************************************************)
AdjugateOverDeterm(m) ==
    LET d == Determ(m)
    IN  Matrix(ZDiv(m[2][2], d), ZDiv(ZNeg(m[1][2]), d),
               ZDiv(ZNeg(m[2][1]), d), ZDiv(m[1][1], d))

C13_InvertBelowResolutionFails ==
    Inverted =>
        IF RLess(Abs2(Determ(last.pre)), QuotMul(fResolution, fResolution))
        THEN last.error /\ fMatrix = last.pre
        ELSE ~last.error /\ fMatrix = AdjugateOverDeterm(last.pre)

\* Invert failed on a matrix whose determinant is not zero
C13_Witness ==
    /\ Inverted
    /\ last.error
    /\ Determ(last.pre) # ZZero
    /\ fResolution = R(2)

\* Invert inverted a matrix whose determinant has exactly the magnitude
\* Resolution
C13_InvertedAtResolution ==
    /\ Inverted
    /\ ~last.error
    /\ Abs2(Determ(last.pre)) = QuotMul(fResolution, fResolution)
    /\ fMatrix # last.pre

(***************************************************************************)
(* C14: Decompose is the inverse of Compose: for every real scalar a and   *)
(* real 3-vector b, Compose(a, b) followed by the real-coefficient         *)
(* Decompose returns exactly (a, b) and never takes the non-Hermitian      *)
(* error path; for every complex a and complex b, Compose followed by the  *)
(* complex-coefficient Decompose returns (a, b).                           *)
(***************************************************************************)
DecomposedReal ==
    fMatrix # << >> /\ last.op = "DecomposeReal" /\ last.made.how = "ComposeReal"
DecomposedComplex ==
    fMatrix # << >> /\ last.op = "DecomposeComplex" /\ last.made.how = "ComposeComplex"

\* as stated: the coefficients come back as they were given
C14_DecomposeReturnsExactly ==
    /\ DecomposedReal => ~last.error /\ last.out = last.made.with
    /\ DecomposedComplex => last.out = last.made.with

\* x + y and x - y are LDouble_t values
Exact(x) == Fl(x) = x
SumsExact(x, y) == Exact(QuotAdd(x, y)) /\ Exact(QuotAdd(x, RNeg(y)))

\* C14 as the code has it: the real-coefficient Decompose of Compose(a, b)
\* never takes the error path and returns b[1] and b[2] exactly, and a and
\* b[3] exactly when a + b[3] and a - b[3] are formed without rounding;
\* the complex-coefficient Decompose returns (a, b) when the sums and
\* differences Compose forms are formed without rounding
C14_DecomposeInvertsCompose ==
    /\ DecomposedReal =>
          LET a == last.made.with[1]
              b == last.made.with[2]
          IN  /\ ~last.error
              /\ last.out[2][1] = b[1]
              /\ last.out[2][2] = b[2]
              /\ SumsExact(a, b[3]) => last.out[1] = a /\ last.out[2][3] = b[3]
    /\ DecomposedComplex =>
          LET a == last.made.with[1]
              b == last.made.with[2]
          IN  (/\ SumsExact(a[1], b[3][1])
               /\ SumsExact(a[2], b[3][2])
               /\ SumsExact(b[1][1], b[2][2])
               /\ SumsExact(b[1][2], b[2][1]))
                  => last.out = last.made.with

\* a scalar and a vector with three different non-zero components came
\* back from the real-coefficient Decompose, in rounding arithmetic
C14_Witness ==
    /\ DecomposedReal
    /\ mantissa = Mantissa
    /\ last.made.with[1] # R(0)
    /\ \A i \in 1..3 : last.made.with[2][i] # R(0)
    /\ last.made.with[2][1] # last.made.with[2][2]
    /\ last.out = last.made.with

\* a + b[3] was rounded, and a or b[3] came back changed
C14_RoundedAway ==
    /\ DecomposedReal
    /\ ~SumsExact(last.made.with[1], last.made.with[2][3])
    /\ last.out # last.made.with

(***************************************************************************)
(* C15: the real-coefficient Decompose on a matrix that is not Hermitian   *)
(* within tolerance reports an error, sets the scalar a and all three      *)
(* components of b to zero, returns normally, and leaves the matrix        *)
(* unchanged.                                                              *)
(***************************************************************************)
C15_NonHermitianDecomposeGivesZero ==
    fMatrix # << >> /\ last.op = "DecomposeReal"
                    /\ ~IsHermetian(last.pre, fResolution)
        => /\ last.error
           /\ last.out = << R(0), << R(0), R(0), R(0) >> >>
           /\ last.returned = "void"
           /\ fMatrix = last.pre

\* the real-coefficient Decompose was called on a matrix with a non-zero
\* trace and two different off-diagonal entries, and reported the error
C15_Witness ==
    /\ fMatrix # << >>
    /\ last.op = "DecomposeReal"
    /\ last.error
    /\ ZAdd(last.pre[1][1], last.pre[2][2]) # ZZero
    /\ last.pre[1][2] # last.pre[2][1]
    /\ last.out = << R(0), << R(0), R(0), R(0) >> >>

(***************************************************************************)
(* C16: SetPolar(theta, phi) produces the spinor (1,0) at theta = 0 for    *)
(* every value of phi, and the spinor (0,1) at theta = pi.                 *)
(***************************************************************************)
PolarSet == fSpinor # << >> /\ last.op = "none" /\ last.made.how = "SetPolar"
SpinUp == << ZOne, ZZero >>
SpinDown == << ZZero, ZOne >>

\* as stated
C16_SetPolarGivesBasisStates ==
    PolarSet =>
        /\ last.made.with[1] = Angle(0, 0) => fSpinor = SpinUp
        /\ last.made.with[1] = Pi => fSpinor = SpinDown

\* C16 as the code has it: SetPolar(theta, phi) produces the spinor
\* (exp(-i*phi/2), 0) at theta = 0 and (0, exp(i*phi/2)) at theta = pi, and
\* at every theta the inverse of the Euler rotation (phi, theta, 0) applied
\* to (1,0)
C16_SetPolarGivesBasisStatesUpToPhase ==
    PolarSet =>
        LET theta == last.made.with[1]
            phi == last.made.with[2]
        IN  /\ theta = Angle(0, 0) =>
                  fSpinor = << << CosHalf(phi), RNeg(SinHalf(phi)) >>, ZZero >>
            /\ theta = Pi =>
                  fSpinor = << ZZero, << CosHalf(phi), SinHalf(phi) >> >>
            /\ ~RLess(R(1), fResolution) =>
                  \E rotOpEuler \in { SetRotationEuler(phi, theta, Angle(0, 0)) } :
                  \E inverse \in { Invert(rotOpEuler, fResolution).m } :
                      fSpinor = Times(inverse, SpinUp)

\* SetPolar(0, pi) gave the spinor (-i, 0)
C16_Witness ==
    /\ PolarSet
    /\ last.made.with = << Angle(0, 0), Pi >>
    /\ fSpinor = << Z(0, -1), ZZero >>

(***************************************************************************)
(* C17: rotating any Pauli spinor by 2*pi about any axis yields the        *)
(* negative of the original spinor, and rotating by 4*pi (or applying the  *)
(* 2*pi rotation twice in sequence) yields the original spinor.            *)
(***************************************************************************)
SpinorNeg(s) == << ZNeg(s[1]), ZNeg(s[2]) >>
SpinorOp(op) == fSpinor # << >> /\ last.op = op
ByAxisAngle(angle) == SpinorOp("Rotate") /\ last.arg[2] = angle
ByThreeRotation(angle) == SpinorOp("RotateOp") /\ last.arg.angle = angle
ByThreeVector(angle) == SpinorOp("RotateVector") /\ last.arg.angle = angle
ByEulerAboutY(angle) ==
    SpinorOp("RotateEuler") /\ last.arg = << Angle(0, 0), angle, Angle(0, 0) >>

\* as stated: however the rotation by 2*pi is passed
C17_EveryTwoPiRotationNegates ==
    /\ ByAxisAngle(TwoPi) \/ ByThreeRotation(TwoPi) \/ ByThreeVector(TwoPi)
           => fSpinor = SpinorNeg(last.pre)
    /\ ByAxisAngle(FourPi) \/ ByThreeRotation(FourPi) => fSpinor = last.pre

TwoPiNegates ==
    /\ ByAxisAngle(TwoPi) \/ ByThreeVector(TwoPi) \/ ByEulerAboutY(TwoPi)
           => fSpinor = SpinorNeg(last.pre)
    /\ ByAxisAngle(FourPi) => fSpinor = last.pre
    /\ ByThreeRotation(TwoPi) \/ ByThreeRotation(FourPi) => fSpinor = last.pre

\* a rotation by 2*pi, passed as axis and angle, follows another one
TwoPiTwiceRestores ==
    ByAxisAngle(TwoPi) /\ last'.op = "Rotate" /\ last'.arg[2] = TwoPi
                       /\ depth' = depth + 1
        => fSpinor' = last.pre

\* C17 as the code has it: rotating any Pauli spinor by 2*pi about any
\* axis, the rotation passed as axis and angle, as a vector or as Euler
\* angles, yields the negative of the original spinor, and rotating by
\* 4*pi (or applying the 2*pi rotation twice in sequence) yields the
\* original spinor; passed as a TThreeRotation, a rotation by 2*pi or by
\* 4*pi leaves the spinor as it is
C17_TwoPiNegatesUnlessThreeRotation ==
    []TwoPiNegates /\ [][TwoPiTwiceRestores]_vars

\* the second of two operations rotated a spinor with two non-zero
\* components by 2*pi about the axis (0,3,4) and negated it
C17_Witness ==
    /\ ByAxisAngle(TwoPi)
    /\ depth = 2
    /\ last.arg[1] = << 0, 3, 4 >>
    /\ last.pre[1] # ZZero
    /\ last.pre[2] # ZZero
    /\ fSpinor = SpinorNeg(last.pre)

(***************************************************************************)
(* C18: the matrix TPauliMatrix(EPauliIndex) builds for the unit matrix,   *)
(* sigma1, sigma2, sigma3 is the canonical Pauli matrix (sigma2 has -i     *)
(* above and +i below the diagonal), and equals Compose(1, 0),             *)
(* Compose(0, x-hat), Compose(0, y-hat), Compose(0, z-hat) respectively.   *)
(***************************************************************************)
Canonical ==
    [kPauliOne |-> << << Z(1, 0), Z(0, 0) >>, << Z(0, 0), Z(1, 0) >> >>,
     kPauliSigma1 |-> << << Z(0, 0), Z(1, 0) >>, << Z(1, 0), Z(0, 0) >> >>,
     kPauliSigma2 |-> << << Z(0, 0), Z(0, -1) >>, << Z(0, 1), Z(0, 0) >> >>,
     kPauliSigma3 |-> << << Z(1, 0), Z(0, 0) >>, << Z(0, 0), Z(-1, 0) >> >>]
\* the scalar and the vector of each basis element
Coefficients ==
    [kPauliOne |-> << 1, << 0, 0, 0 >> >>,
     kPauliSigma1 |-> << 0, << 1, 0, 0 >> >>,
     kPauliSigma2 |-> << 0, << 0, 1, 0 >> >>,
     kPauliSigma3 |-> << 0, << 0, 0, 1 >> >>]
RealOf(c) == << R(c[1]), << R(c[2][1]), R(c[2][2]), R(c[2][3]) >> >>
ComplexOf(c) == << Z(c[1], 0), << Z(c[2][1], 0), Z(c[2][2], 0), Z(c[2][3], 0) >> >>
Constructed ==
    /\ fMatrix # << >>
    /\ last.op = "none"
    /\ last.made.how = "PauliMatrix"
    /\ last.made.with \in EPauliIndex

C18_ConstructorGivesCanonicalBasis ==
    Constructed =>
        LET i == last.made.with
        IN  /\ fMatrix = Canonical[i]
            /\ fMatrix = ComposeReal(RealOf(Coefficients[i])[1],
                                     RealOf(Coefficients[i])[2])
            /\ fMatrix = ComposeComplex(ComplexOf(Coefficients[i])[1],
                                        ComplexOf(Coefficients[i])[2])

\* sigma_2 was constructed, with -i above the diagonal
C18_Witness ==
    /\ Constructed
    /\ last.made.with = "kPauliSigma2"
    /\ fMatrix[1][2] = Z(0, -1)
    /\ fMatrix[2][1] = Z(0, 1)

(***************************************************************************)
(* C19: for a receiver A and a distinct argument M, SimTransform(M) leaves *)
(* the receiver equal to M*A*M^-1 and UniTransform(M) leaves it equal to   *)
(* M*A*M-adjoint, the factors in exactly this order; with M the identity   *)
(* both leave A unchanged.                                                 *)
(***************************************************************************)
\* the matrix product x*y, the inverse and the conjugate transpose
Product(x, y) ==
    [i \in 1..2 |-> [j \in 1..2 |->
        ZAdd(ZMul(x[i][1], y[1][j]), ZMul(x[i][2], y[2][j]))]]
Inverse(m) == AdjugateOverDeterm(m)
ConjugateTranspose(m) == [i \in 1..2 |-> [j \in 1..2 |-> ZConj(m[j][i])]]
Transformed(op) == fMatrix # << >> /\ last.op = op
Invertible(m) == ~ZAbsLess(Determ(m), fResolution)

C19_UniTransformed ==
    /\ Transformed("UniTransform")
    /\ Product(last.arg, ConjugateTranspose(last.arg)) # UnitMatrix
    /\ fMatrix # last.pre
    /\ fMatrix # Product(Product(ConjugateTranspose(last.arg), last.pre), last.arg)

(***************************************************************************)
(* C20: Operate(X) replaces the spinor s by the matrix-vector product X*s, *)
(* both new components computed from the components s had before the call *)
(* (the first component's new value is not used when computing the        *)
(* second), and returns the receiver itself.                               *)
(***************************************************************************)
\* the matrix-vector product x*s
Apply(x, s) ==
    [i \in 1..2 |-> ZAdd(ZMul(x[i][1], s[1]), ZMul(x[i][2], s[2]))]

C20_OperateUsesOldComponents ==
    /\ SpinorOp("Operate") =>
          /\ fSpinor = Apply(last.arg, last.pre)
          /\ last.returned = "this"
    /\ SpinorOp("Times") =>
          /\ last.out = Apply(last.arg, last.pre)
          /\ fSpinor = last.pre

\* Operate changed the first component and the second one depends on it:
\* computed from the new first component it would be another spinor
C20_Witness ==
    /\ SpinorOp("Operate")
    /\ last.arg[2][1] # ZZero
    /\ fSpinor[1] # last.pre[1]
    /\ fSpinor = Apply(last.arg, last.pre)
    /\ fSpinor[2] # ZAdd(ZMul(last.arg[2][1], fSpinor[1]),
                         ZMul(last.arg[2][2], last.pre[2]))

(***************************************************************************)
(* Calls with leptons of different masses.  The process functions take     *)
(* any TLepton for every fermion argument and read its mass with Mass();   *)
(* none of them compares the masses of its arguments with each other       *)
(* before it builds the propagators.  The calls offered here start from    *)
(* the first configuration of each function and replace some of its        *)
(* electrons by a heavier lepton, on its mass shell or off it.             *)
(***************************************************************************)
\* the lepton of mass 4 moving along the direction of the electron x
Heavier(x) ==
    IF x.Mass # mElectron THEN x
    ELSE Particle(IF x.Mom[1] = 3 THEN << 4, 0, 0, 0 >>
                  ELSE [i \in 1..4 |-> IF x.Mom[i] = 4 THEN 3
                                       ELSE IF x.Mom[i] = -4 THEN -3
                                       ELSE x.Mom[i]],
                  4, x.SDM)

\* the electron x with SetMass(4) and its momentum left as it was
Relabelled(x) == IF x.Mass # mElectron THEN x ELSE [x EXCEPT !.Mass = 4]

\* the arguments of each function that are made heavier together
HeavySets(f) ==
    CASE f = "Compton" -> { {}, {"eIn"}, {"eOut"}, {"eIn", "eOut"} }
      [] f = "Bremsstrahlung" -> { {}, {"eIn"}, {"eOut"}, {"eIn", "eOut"} }
      [] f = "PairProduction" -> { {}, {"eOut"}, {"pOut"}, {"eOut", "pOut"} }
      [] f = "TripletProduction" ->
           { {}, {"eOut3"}, {"eOut2"}, {"pOut", "eOut3"}, {"pOut", "eOut2"},
             {"eIn", "pOut", "eOut2", "eOut3"} }
      [] f = "BetheHeitlerNucleon" ->
           { {}, {"eOut"}, {"pOut"}, {"pOut", "eOut"} }
      [] f = "eeBremsstrahlung" ->
           { {}, {"eOut3"}, {"eIn1", "eOut3"}, {"eIn1", "eOut2"},
             {"eIn0", "eIn1", "eOut2", "eOut3"} }
      [] f = "ePairProduction" ->
           { {}, {"lnOut"}, {"lpOut"}, {"lpOut", "lnOut"}, {"eOut"},
             {"eIn", "eOut"} }
      [] f = "eTripletProduction" ->
           { {}, {"lnOut"}, {"lpOut", "lnOut"}, {"eOut"},
             {"eOut", "lnOut", "teOut"} }

\* the arguments k with those of heavy made heavier
Vary(k, heavy, onShell) ==
    [n \in DOMAIN k |->
        IF n \notin heavy THEN k[n]
        ELSE IF onShell THEN Heavier(k[n]) ELSE Relabelled(k[n])]

\* those of them that are also offered on the mass shell: the virtual
\* photon invariants of the other sets are too large for the contraction
OnShellSets(f) ==
    CASE f = "ePairProduction" -> { {"lpOut"} }
      [] f = "eTripletProduction" -> { {"lpOut", "lnOut"} }
      [] OTHER -> HeavySets(f)

MixedKin(f) ==
    { Vary(KinOf(f, 1), heavy, FALSE) : heavy \in HeavySets(f) }
        \cup { Vary(KinOf(f, 1), heavy, TRUE) : heavy \in OnShellSets(f) }

\* unpolarised particles, or all of them in the same basis state
MixedSDMs(names) ==
    { [n \in names |-> X] : X \in { Unit, Projector(0), Projector(1) } }

InvAmpOf(name, d, in) ==
    CASE name = "Compton" -> ComptonInvAmp(d, in.gIn, in.eIn, in.gOut, in.eOut)
      [] name = "Bremsstrahlung" ->
           BremsstrahlungInvAmp(d, in.eIn, in.eOut, in.gOut)
      [] name = "PairProduction" ->
           PairProductionInvAmp(d, in.gIn, in.eOut, in.pOut)
      [] name = "TripletProduction" ->
           TripletProductionInvAmp(d, in.gIn, in.eIn, in.pOut, in.eOut2,
                                   in.eOut3)
      [] name = "BetheHeitlerNucleon" ->
           BetheHeitlerNucleonInvAmp(d, in.gIn, in.nIn, in.pOut, in.eOut,
                                     in.nOut, BetheHeitlerNucleonFormFactors(2))
      [] name = "eeBremsstrahlung" ->
           eeBremsstrahlungInvAmp(d, in.eIn0, in.eIn1, in.eOut2, in.eOut3,
                                  in.gOut)
      [] name = "ePairProduction" ->
           ePairProductionInvAmp(d, in.eIn, in.eOut, in.lpOut, in.lnOut)
      [] name = "eTripletProduction" ->
           eTripletProductionInvAmp(d, in.eIn, in.eOut, in.lpOut, in.lnOut,
                                    in.teIn, in.teOut)

WarningOf(name, ampSq) ==
    CASE name = "Compton" -> ComptonWarning(ampSq)
      [] name = "Bremsstrahlung" -> BremsstrahlungWarning(ampSq)
      [] name = "PairProduction" -> PairProductionWarning(ampSq)
      [] name = "TripletProduction" -> TripletProductionWarning(ampSq)
      [] name = "BetheHeitlerNucleon" -> BetheHeitlerNucleonWarning(ampSq)
      [] name = "eeBremsstrahlung" -> eeBremsstrahlungWarning(ampSq)
      [] name = "ePairProduction" -> ePairProductionWarning(ampSq)
      [] name = "eTripletProduction" -> eTripletProductionWarning(ampSq)

\* a call of process function f with arguments of MixedKin(f)
MixedCall(f) ==
    /\ pc = "ready"
    /\ \E k \in MixedKin(f) :
         \E amp \in { Stored(InvAmpOf(f, dirac, k)) } :
           \E sdm \in MixedSDMs(DOMAIN k) :
             \E in \in { WithSDM(k, sdm) } :
               \E ampSq \in { AmpSquaredOf(f, amp, in) } :
                 Finish(f, in, amp, ampSq, WarningOf(f, ampSq),
                        KinFactorOf(f, in))

MixedNext ==
    \/ \E f \in Functions : MixedCall(f)
    \/ Continue

MixedSpec == Init /\ [][MixedNext]_vars

(***************************************************************************)
(* Direct and exchange diagrams.  A sign vector with some entries set to   *)
(* zero gives the part of the summand that the other diagram pairs         *)
(* contribute.                                                             *)
(***************************************************************************)
Called(f) == pc = "done" /\ proc = f

Only(sign, keep) == [k \in 1..Len(sign) |-> IF k \in keep THEN sign[k] ELSE 0]

\* the places of the direct pairs CD2, GD2 and of the exchange pairs CD3,
\* GD3 in the summand of TripletProduction
TripletProductionDirect == { 1, 3 }
TripletProductionExchange == { 2, 4 }

\* the part of invAmp of the finished TripletProduction call that the
\* diagram pairs keep contribute, had eOut3 been passed as e3
TripletProductionPart(keep, e3) ==
    TripletProductionSummand(dirac, Only(TripletProductionSigns, keep),
        argsIn.gIn, argsIn.eIn, argsIn.pOut, argsIn.eOut2, e3).num

\* C21: in TripletProduction with eOut2 and eOut3 of unequal masses the
\* four exchange diagrams (CD3, GD3) contribute exactly zero to every entry
\* of invAmp, the four direct diagrams (CD2, GD2) contribute what they
\* contribute when the masses are equal, and the call returns its value
\* with no error reported
C21_UnequalMassesDropExchange ==
    (Called("TripletProduction") /\ argsIn.eOut2.Mass # argsIn.eOut3.Mass) =>
        \E exchange \in { TripletProductionPart(TripletProductionExchange,
                                                argsIn.eOut3) } :
          \E direct \in { TripletProductionPart(TripletProductionDirect,
                                                argsIn.eOut3) } :
            /\ \A i \in Idx(5) : exchange[i] = CZero
            /\ direct = TripletProductionPart(TripletProductionDirect,
                          [argsIn.eOut3 EXCEPT !.Mass = argsIn.eOut2.Mass])
            /\ invAmp.num = direct
            /\ ~warned
            /\ ret = DiffXsect(ampSquared, invAmp.den * invAmp.den,
                               KinFactorOf(proc, argsIn))

\* a call with unequal masses whose exchange diagrams would contribute
\* were the masses equal, and whose direct diagrams do contribute
C21_Witness ==
    /\ Called("TripletProduction")
    /\ argsIn.eOut2.Mass # argsIn.eOut3.Mass
    /\ \E i \in Idx(5) :
         TripletProductionPart(TripletProductionExchange,
             [argsIn.eOut3 EXCEPT !.Mass = argsIn.eOut2.Mass])[i] # CZero
    /\ \E i \in Idx(5) : invAmp.num[i] # CZero

\* the places of the direct pairs (ePropagator1,2 and 3,4) and of the
\* exchange pairs (ePropagator5,6 and 7,8) in the summand of ePairProduction
ePairProductionDirect == { 1, 2 }
ePairProductionExchange == { 3, 4 }

\* the part of invAmp of the finished ePairProduction call that the
\* diagram pairs keep contribute
ePairProductionPart(keep) ==
    ePairProductionSummand(dirac, Only(ePairProductionSigns, keep),
        argsIn.eIn, argsIn.eOut, argsIn.lpOut, argsIn.lnOut).num

\* C22: in ePairProduction the four exchange diagrams (the terms built from
\* ePropagator5..8) enter only for identical final electrons: when eOut and
\* lnOut have different masses they contribute zero to every entry of invAmp
C22_ExchangeOnlyForIdenticalElectrons ==
    (Called("ePairProduction") /\ argsIn.eOut.Mass # argsIn.lnOut.Mass) =>
        \A i \in Idx(4) : ePairProductionPart(ePairProductionExchange)[i] = CZero

(***************************************************************************)
(* The permutations of the final electrons in eTripletProduction.          *)
(* Permutation p puts the particles eFs[p], teFs[p], lnFs[p] in the places *)
(* of the scattered electron, the target electron and the pair electron.   *)
(***************************************************************************)
Assignment(p) == << eFs[p], teFs[p], lnFs[p] >>

\* the assignments the finished eTripletProduction call summed over
SummedOver == { Assignment(p) : p \in 1..eTripletProductionNperms(argsIn.lnOut) }

Identity == << "eF", "teF", "lnF" >>
\* eOut and teOut change places, lnOut stays
Transposition == << "teF", "eF", "lnF" >>
AllPermutations ==
    { a \in [1..3 -> { "eF", "teF", "lnF" }] : Cardinality({ a[i] : i \in 1..3 }) = 3 }

\* C23 as stated: eTripletProduction sums over 6 permutations exactly when
\* eOut, lnOut and teOut share a mass, and otherwise over exactly 2, the
\* identity and the transposition of eOut with teOut
C23_SixPermutationsIffEqualMasses ==
    Called("eTripletProduction") =>
        IF argsIn.eOut.Mass = argsIn.lnOut.Mass
              /\ argsIn.lnOut.Mass = argsIn.teOut.Mass
        THEN Cardinality(SummedOver) = 6
        ELSE SummedOver = { Identity, Transposition }

\* C23: eTripletProduction sums over all 6 permutations of the final electrons
\* exactly when the mass of lnOut equals the constant mElectron, whatever the
\* masses of eOut and teOut, and otherwise over exactly 2, the identity and
\* the transposition of eOut with teOut
C23_SixPermutationsIffElectronMass ==
    Called("eTripletProduction") =>
        IF argsIn.lnOut.Mass = mElectron
        THEN SummedOver = AllPermutations
        ELSE SummedOver = { Identity, Transposition }

\* calls where the two conditions differ: the three final leptons share a
\* mass that is not mElectron, and lnOut is an electron but eOut is not
C23_Witness ==
    /\ Called("eTripletProduction")
    /\ argsIn.eOut.Mass = argsIn.lnOut.Mass
    /\ argsIn.lnOut.Mass = argsIn.teOut.Mass
    /\ argsIn.lnOut.Mass # mElectron
    /\ Cardinality(SummedOver) = 2

C23_SixWithUnequalMasses ==
    /\ Called("eTripletProduction")
    /\ argsIn.eOut.Mass # argsIn.lnOut.Mass
    /\ Cardinality(SummedOver) = 6

(***************************************************************************)
(* The fermion lines and propagators each function builds, read off its    *)
(* propagator block and its summand.  A denominator is the list of the     *)
(* four-vector calls that are added up to give it, a propagator is the     *)
(* momentum p and the mass m of its numerator Slash(p) + m with its        *)
(* denominator, a line is the chain u[out] ... u[in] (or v[in]) of a       *)
(* summand term with the propagators of the two diagrams that are added    *)
(* in it, and a diagram is a term of the summand with its sign.  in is     *)
(* the record of the arguments by their names.                             *)
(***************************************************************************)
\* variant: every scalar product enters with a plus sign
SPUnsigned(c, a, b) ==
    [call |-> "ScalarProd", coef |-> Abs(c), a |-> a, b |-> b]

\* c * a.ScalarProd(b) as a summand of a denominator
SP(c, a, b) == [call |-> "ScalarProd", coef |-> c, a |-> a, b |-> b]
\* variant: the square of q taken as its scalar product with itself
SqByScalarProd(q) == [call |-> "ScalarProd", coef |-> 1, a |-> q, b |-> q]

Sq(q) == [call |-> "InvariantSqr", coef |-> 1, a |-> q, b |-> q]
Propagator(p, m, denom) == [p |-> p, m |-> m, denom |-> denom]
Line(out, from, props) == [out |-> out, from |-> from, props |-> props]
Diagram(sign, lines) == [sign |-> sign, lines |-> lines]

CallValue(t) ==
    t.coef * (IF t.call = "ScalarProd" THEN ScalarProd(t.a, t.b)
              ELSE InvariantSqr(t.a))
RECURSIVE DenomValue(_)
DenomValue(denom) ==
    IF denom = << >> THEN 0
    ELSE CallValue(Head(denom)) + DenomValue(Tail(denom))

ComptonDiagrams(in) ==
    LET gI == in.gIn.Mom
        eI == in.eIn.Mom
        gF == in.gOut.Mom
        mLepton == in.eIn.Mass
        ePropagator1 == Propagator(VAdd(eI, gI), mLepton, << SP(2, eI, gI) >>)
        ePropagator2 == Propagator(VSub(eI, gF), mLepton, << SP(-2, eI, gF) >>)
    IN  << Diagram(1, << Line("eOut", "eIn",
                              << ePropagator1, ePropagator2 >>) >>) >>

BremsstrahlungDiagrams(in) ==
    LET eI == in.eIn.Mom
        eF == in.eOut.Mom
        gF == in.gOut.Mom
        mLepton == in.eIn.Mass
        qRecoil == VSub(VSub(eI, eF), gF)
        ePropagator1 == Propagator(VSub(eI, qRecoil), mLepton,
                                   << Sq(qRecoil), SP(-2, qRecoil, eI) >>)
        ePropagator2 == Propagator(VAdd(eF, qRecoil), mLepton,
                                   << Sq(qRecoil), SP(2, qRecoil, eF) >>)
    IN  << Diagram(1, << Line("eOut", "eIn",
                              << ePropagator1, ePropagator2 >>) >>) >>

PairProductionDiagrams(in) ==
    LET gI == in.gIn.Mom
        eF == in.eOut.Mom
        pF == in.pOut.Mom
        mLepton == in.eOut.Mass
        ePropagator1 == Propagator(VSub(eF, gI), mLepton, << SP(-2, gI, eF) >>)
        ePropagator2 == Propagator(VSub(gI, pF), mLepton, << SP(-2, gI, pF) >>)
    IN  << Diagram(1, << Line("eOut", "pOut",
                              << ePropagator1, ePropagator2 >>) >>) >>

TripletProductionDiagrams(in) ==
    LET g0 == in.gIn.Mom
        e0 == in.eIn.Mom
        e1 == in.pOut.Mom
        e2 == in.eOut2.Mom
        e3 == in.eOut3.Mom
        mLepton == in.eIn.Mass
        epropCD2a == Propagator(VAdd(g0, e0), mLepton, << SP(2, g0, e0) >>)
        epropCD2b == Propagator(VSub(e2, g0), mLepton, << SP(-2, g0, e2) >>)
        epropGD2a == Propagator(VSub(g0, e1), mLepton, << SP(-2, g0, e1) >>)
        epropGD2b == Propagator(VSub(e3, g0), mLepton, << SP(-2, g0, e3) >>)
        epropCD3a == epropCD2a
        epropCD3b == epropGD2b
        epropGD3a == epropGD2a
        epropGD3b == epropCD2b
        sign == TripletProductionSigns
    IN  << Diagram(sign[1],
             << Line("eOut3", "pOut", << >>),
                Line("eOut2", "eIn", << epropCD2a, epropCD2b >>) >>),
           Diagram(sign[2],
             << Line("eOut2", "pOut", << >>),
                Line("eOut3", "eIn", << epropCD3a, epropCD3b >>) >>),
           Diagram(sign[3],
             << Line("eOut2", "eIn", << >>),
                Line("eOut3", "pOut", << epropGD2a, epropGD2b >>) >>),
           Diagram(sign[4],
             << Line("eOut3", "eIn", << >>),
                Line("eOut2", "pOut", << epropGD3a, epropGD3b >>) >>) >>

BetheHeitlerNucleonDiagrams(in) ==
    LET g0 == in.gIn.Mom
        n0 == in.nIn.Mom
        e1 == in.pOut.Mom
        e2 == in.eOut.Mom
        n3 == in.nOut.Mom
        mLepton == in.pOut.Mass
        mNucleon == in.nIn.Mass
        npropCDa == Propagator(VAdd(g0, n0), mNucleon, << SP(2, g0, n0) >>)
        npropCDb == Propagator(VSub(n3, g0), mNucleon, << SP(-2, g0, n3) >>)
        epropGDa == Propagator(VSub(g0, e1), mLepton, << SP(-2, g0, e1) >>)
        epropGDb == Propagator(VSub(e2, g0), mLepton, << SP(-2, g0, e2) >>)
    IN  << Diagram(1,
             << Line("eOut", "pOut", << >>),
                Line("nOut", "nIn", << npropCDa, npropCDb >>) >>),
           Diagram(1,
             << Line("nOut", "nIn", << >>),
                Line("eOut", "pOut", << epropGDa, epropGDb >>) >>) >>

eeBremsstrahlungDiagrams(in) ==
    LET e0 == in.eIn0.Mom
        e1 == in.eIn1.Mom
        e2 == in.eOut2.Mom
        e3 == in.eOut3.Mom
        g0 == in.gOut.Mom
        mLepton == in.eIn0.Mass
        epropA1 == Propagator(VSub(e0, g0), mLepton, << SP(-2, g0, e0) >>)
        epropA2 == Propagator(VAdd(e2, g0), mLepton, << SP(2, g0, e2) >>)
        epropB1 == Propagator(VSub(e1, g0), mLepton, << SP(-2, g0, e1) >>)
        epropB2 == Propagator(VAdd(e3, g0), mLepton, << SP(2, g0, e3) >>)
        epropC1 == epropA1
        epropC2 == epropB2
        epropD1 == epropB1
        epropD2 == epropA2
        sign == eeBremsstrahlungSigns
    IN  << Diagram(sign[1],
             << Line("eOut3", "eIn1", << >>),
                Line("eOut2", "eIn0", << epropA1, epropA2 >>) >>),
           Diagram(sign[2],
             << Line("eOut2", "eIn0", << >>),
                Line("eOut3", "eIn1", << epropB1, epropB2 >>) >>),
           Diagram(sign[3],
             << Line("eOut2", "eIn1", << >>),
                Line("eOut3", "eIn0", << epropC1, epropC2 >>) >>),
           Diagram(sign[4],
             << Line("eOut3", "eIn0", << >>),
                Line("eOut2", "eIn1", << epropD1, epropD2 >>) >>) >>

ePairProductionDiagrams(in) ==
    LET eI == in.eIn.Mom
        eF == in.eOut.Mom
        lpF == in.lpOut.Mom
        lnF == in.lnOut.Mom
        mLepton == in.lnOut.Mass
        qElectron == VSub(eI, eF)
        qPair == VAdd(lnF, lpF)
        ePropagator1 == Propagator(VSub(qElectron, lpF), mLepton,
                          << Sq(qElectron), SP(-2, qElectron, lpF) >>)
        ePropagator2 == Propagator(VSub(lnF, qElectron), mLepton,
                          << Sq(qElectron), SP(-2, qElectron, lnF) >>)
        ePropagator3 == Propagator(VAdd(eF, qPair), mLepton,
                          << Sq(qPair), SP(2, qPair, eF) >>)
        ePropagator4 == Propagator(VSub(eI, qPair), mLepton,
                          << Sq(qPair), SP(-2, qPair, eI) >>)
        qElectronX == VSub(eI, lnF)
        qPairX == VAdd(eF, lpF)
        ePropagator5 == Propagator(VSub(qElectronX, lpF), mLepton,
                          << Sq(qElectronX), SP(-2, qElectronX, lpF) >>)
        ePropagator6 == Propagator(VSub(eF, qElectronX), mLepton,
                          << Sq(qElectronX), SP(-2, qElectronX, eF) >>)
        ePropagator7 == Propagator(VAdd(lnF, qPairX), mLepton,
                          << Sq(qPairX), SP(2, qPairX, lnF) >>)
        ePropagator8 == Propagator(VSub(eI, qPairX), mLepton,
                          << Sq(qPairX), SP(-2, qPairX, eI) >>)
        sign == ePairProductionSigns
    IN  << Diagram(sign[1],
             << Line("eOut", "eIn", << >>),
                Line("lnOut", "lpOut", << ePropagator1, ePropagator2 >>) >>),
           Diagram(sign[2],
             << Line("lnOut", "lpOut", << >>),
                Line("eOut", "eIn", << ePropagator3, ePropagator4 >>) >>),
           Diagram(sign[3],
             << Line("lnOut", "eIn", << >>),
                Line("eOut", "lpOut", << ePropagator5, ePropagator6 >>) >>),
           Diagram(sign[4],
             << Line("eOut", "lpOut", << >>),
                Line("lnOut", "eIn", << ePropagator7, ePropagator8 >>) >>) >>

\* the argument behind each local name of eTripletProduction
eTripletProductionArgument == [eF |-> "eOut", teF |-> "teOut", lnF |-> "lnOut"]

\* the three terms of permutation p
eTripletProductionTerms(in, p) ==
    LET eI == in.eIn.Mom
        lpF == in.lpOut.Mom
        teI == in.teIn.Mom
        arg == eTripletProductionArgument
        eFsp == in[arg[eFs[p]]].Mom
        teFsp == in[arg[teFs[p]]].Mom
        lnFsp == in[arg[lnFs[p]]].Mom
        mLepton == in.lnOut.Mass
        qElectron == VSub(eI, eFsp)
        qPair == VAdd(lnFsp, lpF)
        ePropagator ==
            << Propagator(VSub(qElectron, lpF), mLepton,
                          << Sq(qElectron), SP(-2, qElectron, lpF) >>),
               Propagator(VSub(lnFsp, qElectron), mLepton,
                          << Sq(qElectron), SP(-2, qElectron, lnFsp) >>),
               Propagator(VAdd(eFsp, qPair), mLepton,
                          << Sq(qPair), SP(2, qPair, eFsp) >>),
               Propagator(VSub(eI, qPair), mLepton,
                          << Sq(qPair), SP(-2, qPair, eI) >>),
               Propagator(VAdd(teI, qElectron), mLepton,
                          << Sq(qElectron), SP(2, qElectron, teI) >>),
               Propagator(VSub(teFsp, qElectron), mLepton,
                          << Sq(qElectron), SP(-2, qElectron, teFsp) >>) >>
        uFsp == arg[eFs[p]]
        utFsp == arg[teFs[p]]
        ulFsp == arg[lnFs[p]]
    IN  << Diagram(permorder[p],
             << Line(uFsp, "eIn", << >>), Line(utFsp, "teIn", << >>),
                Line(ulFsp, "lpOut", << ePropagator[1], ePropagator[2] >>) >>),
           Diagram(permorder[p],
             << Line(ulFsp, "lpOut", << >>), Line(utFsp, "teIn", << >>),
                Line(uFsp, "eIn", << ePropagator[3], ePropagator[4] >>) >>),
           Diagram(permorder[p],
             << Line(uFsp, "eIn", << >>), Line(ulFsp, "lpOut", << >>),
                Line(utFsp, "teIn", << ePropagator[5], ePropagator[6] >>) >>) >>

RECURSIVE Concat(_)
Concat(seqs) == IF seqs = << >> THEN << >> ELSE Head(seqs) \o Concat(Tail(seqs))

eTripletProductionDiagrams(in) ==
    Concat([p \in 1..eTripletProductionNperms(in.lnOut) |->
              eTripletProductionTerms(in, p)])

DiagramsOf(name, in) ==
    CASE name = "Compton" -> ComptonDiagrams(in)
      [] name = "Bremsstrahlung" -> BremsstrahlungDiagrams(in)
      [] name = "PairProduction" -> PairProductionDiagrams(in)
      [] name = "TripletProduction" -> TripletProductionDiagrams(in)
      [] name = "BetheHeitlerNucleon" -> BetheHeitlerNucleonDiagrams(in)
      [] name = "eeBremsstrahlung" -> eeBremsstrahlungDiagrams(in)
      [] name = "ePairProduction" -> ePairProductionDiagrams(in)
      [] name = "eTripletProduction" -> eTripletProductionDiagrams(in)

\* every propagator the call builds, with the line it lies on
PropagatorsOf(name, in) ==
    LET ds == DiagramsOf(name, in)
    IN  { [line |-> ds[i].lines[j], prop |-> ds[i].lines[j].props[k]] :
            << i, j, k >> \in
              { t \in (1..Len(ds)) \X (1..3) \X (1..2) :
                  /\ t[2] <= Len(ds[t[1]].lines)
                  /\ t[3] <= Len(ds[t[1]].lines[t[2]].props) } }

(***************************************************************************)
(* What the denominators are computed from.                                *)
(***************************************************************************)
\* the momenta of the arguments of the finished call
External == { argsIn[n].Mom : n \in DOMAIN argsIn }

\* twice the scalar product of two vectors, of either sign
TwiceScalarProd(t) == t.call = "ScalarProd" /\ t.coef \in { 2, -2 }

\* the functions whose propagators carry a momentum transfer
WithTransfer == { "Bremsstrahlung", "ePairProduction", "eTripletProduction" }

\* C24 as stated: in every process function every fermion propagator
\* denominator is computed from four-vector scalar products only, twice a
\* ScalarProd of external momenta, and never from a call of InvariantSqr
C24_DenominatorsFromScalarProductsOnly ==
    pc = "done" =>
        \A x \in PropagatorsOf(proc, argsIn) :
          \A i \in 1..Len(x.prop.denom) :
            /\ TwiceScalarProd(x.prop.denom[i])
            /\ x.prop.denom[i].a \in External
            /\ x.prop.denom[i].b \in External

\* C24: in Compton, PairProduction, TripletProduction, BetheHeitlerNucleon
\* and eeBremsstrahlung every fermion propagator denominator is twice the
\* ScalarProd of two external momenta (of either sign); in Bremsstrahlung,
\* ePairProduction and eTripletProduction it is the InvariantSqr of a
\* momentum transfer q plus or minus twice the ScalarProd of q with an
\* external momentum
C24_DenominatorsFromScalarProductsOrTransfer ==
    pc = "done" =>
        \A x \in PropagatorsOf(proc, argsIn) :
          \E denom \in { x.prop.denom } :
            IF proc \in WithTransfer
            THEN /\ Len(denom) = 2
                 /\ denom[1].call = "InvariantSqr"
                 /\ denom[1].coef = 1
                 /\ TwiceScalarProd(denom[2])
                 /\ denom[2].a = denom[1].a
                 /\ denom[2].b \in External
            ELSE /\ Len(denom) = 1
                 /\ TwiceScalarProd(denom[1])
                 /\ denom[1].a \in External
                 /\ denom[1].b \in External

\* an ePairProduction call off the mass shell: the InvariantSqr in the
\* denominator of ePropagator1 differs from what the masses would give
C24_Witness ==
    /\ Called("ePairProduction")
    /\ \E x \in PropagatorsOf(proc, argsIn) :
         /\ x.prop.denom[1].call = "InvariantSqr"
         /\ x.prop.denom[1].a = VSub(argsIn.eIn.Mom, argsIn.eOut.Mom)
         /\ CallValue(x.prop.denom[1]) #
              argsIn.eIn.Mass * argsIn.eIn.Mass
                + argsIn.eOut.Mass * argsIn.eOut.Mass
                - 2 * ScalarProd(argsIn.eIn.Mom, argsIn.eOut.Mom)

(***************************************************************************)
(* The denominators on the mass shell.                                     *)
(***************************************************************************)
Photons == { "gIn", "gOut" }

\* the leptons at the two ends of the line of propagator x are on the mass
\* shell with the mass of its numerator, and the photons are massless
OnShell(x) ==
    /\ \A n \in { x.line.out, x.line.from } :
         /\ argsIn[n].Mass = x.prop.m
         /\ InvariantSqr(argsIn[n].Mom) = x.prop.m * x.prop.m
    /\ \A n \in DOMAIN argsIn \cap Photons : InvariantSqr(argsIn[n].Mom) = 0

\* C25: for every fermion propagator of every process function the
\* denominator equals p^2 - m^2, p the momentum and m the mass of its
\* numerator Slash(p) + m, whenever the external fermion legs are on shell
\* with mass m and the external photons are massless
C25_DenominatorIsOffShellness ==
    pc = "done" =>
        \A x \in PropagatorsOf(proc, argsIn) :
          OnShell(x) =>
            DenomValue(x.prop.denom) =
              InvariantSqr(x.prop.p) - x.prop.m * x.prop.m

\* an eTripletProduction call with a propagator of an exchanged line on
\* the mass shell, its denominator the sum of two calls
C25_Witness ==
    /\ Called("eTripletProduction")
    /\ \E x \in PropagatorsOf(proc, argsIn) :
         /\ OnShell(x)
         /\ x.line.out = "teOut"
         /\ x.line.from = "eIn"
         /\ Len(x.prop.denom) = 2
         /\ DenomValue(x.prop.denom) # 0
         /\ DenomValue(x.prop.denom) =
              InvariantSqr(x.prop.p) - x.prop.m * x.prop.m

(***************************************************************************)
(* The mass in the numerators.                                             *)
(***************************************************************************)
\* C30: in every process function the mass added to the numerator of each
\* fermion propagator is the mass of the particle on whose fermion line
\* the propagator lies, for all inputs, those with external fermions of
\* different masses included
C30_NumeratorMassIsLineMass ==
    pc = "done" =>
        \A x \in PropagatorsOf(proc, argsIn) :
          argsIn[x.line.out].Mass = argsIn[x.line.from].Mass =>
            x.prop.m = argsIn[x.line.from].Mass

(***************************************************************************)
(* The signs of the diagrams.  Each diagram sends every line start (an     *)
(* initial electron or the positron of the pair) to a final electron; the  *)
(* permutation of a diagram is the one that takes the final electrons of   *)
(* the first, direct diagram to its own.                                   *)
(***************************************************************************)
\* the final electron of the line of diagram d that starts at s
FinalFrom(d, s) ==
    d.lines[CHOOSE i \in 1..Len(d.lines) : d.lines[i].from = s].out
Place(ref, o) == CHOOSE j \in 1..Len(ref.lines) : ref.lines[j].out = o
PermutationOf(d, ref) ==
    [i \in 1..Len(ref.lines) |-> Place(ref, FinalFrom(d, ref.lines[i].from))]
Inversions(s) ==
    Cardinality({ t \in (1..Len(s)) \X (1..Len(s)) : t[1] < t[2] /\ s[t[1]] > s[t[2]] })
Parity(s) == IF Inversions(s) % 2 = 0 THEN 1 ELSE -1

\* the functions with more than one final electron
WithExchange ==
    { "TripletProduction", "eeBremsstrahlung", "ePairProduction",
      "eTripletProduction" }

\* entry p of the permutation tables as a permutation of 1..3
TablePermutation(p) ==
    [i \in 1..3 |-> CHOOSE j \in 1..3 : Identity[j] = Assignment(p)[i]]

\* C26: in TripletProduction, eeBremsstrahlung, ePairProduction and
\* eTripletProduction the sign of each diagram term is the parity of the
\* permutation of the final electrons that takes the direct diagram to it;
\* the six entries of the permutation tables of eTripletProduction are six
\* distinct permutations and permorder is +1 for the even, -1 for the odd
C26_SignIsParityOfExchange ==
    (pc = "done" /\ proc \in WithExchange) =>
        \E ds \in { DiagramsOf(proc, argsIn) } :
          /\ \A i \in 1..Len(ds) :
               ds[i].sign = Parity(PermutationOf(ds[i], ds[1]))
          /\ proc = "eTripletProduction" =>
               /\ { Assignment(p) : p \in 1..6 } = AllPermutations
               /\ \A p \in 1..6 : permorder[p] = Parity(TablePermutation(p))

\* an eTripletProduction call over six permutations: an odd one with sign
\* -1 and a cyclic one with sign +1 among its terms
C26_Witness ==
    /\ Called("eTripletProduction")
    /\ \E ds \in { DiagramsOf(proc, argsIn) } :
         /\ Len(ds) = 18
         /\ \E i \in 1..Len(ds) :
              ds[i].sign = -1 /\ Inversions(PermutationOf(ds[i], ds[1])) = 1
         /\ \E i \in 1..Len(ds) :
              ds[i].sign = 1 /\ Inversions(PermutationOf(ds[i], ds[1])) = 2

(***************************************************************************)
(* The helicity indices of eTripletProduction.  In the summand the spinor  *)
(* array uFs[p] is indexed by hf, utFs[p] by tf and ulFs[p] by lf; in the  *)
(* contraction hf indexes the SDM of eF, tf that of teF and lf that of lnF.*)
(***************************************************************************)
\* the index that the spinor of each final electron carries in the terms
\* of permutation p: uFs[p][hf], utFs[p][tf], ulFs[p][lf]
SpinorIndex(p) == (uFs[p] :> "hf") @@ (utFs[p] :> "tf") @@ (ulFs[p] :> "lf")

\* the index of the SDM of each final electron in the contraction, by the
\* spinor array of that electron: eF->SDM()[hfbar][hf],
\* lnF->SDM()[lfbar][lf], teF->SDM()[tfbar][tf]
SDMIndex == [uF |-> "hf", ulF |-> "lf", utF |-> "tf"]

\* C27: in eTripletProduction, for every permutation p summed over, the
\* spinor used for each final electron (eOut, lnOut, teOut) is indexed by
\* the helicity index (hf, lf, tf) that indexes the SDM of that electron in
\* the contraction, so that invAmp[hi][hf][li][lf][ti][tf] is the total
\* amplitude for those helicities
C27_SpinorIndexIsSDMIndex ==
    Called("eTripletProduction") =>
        \A p \in 1..eTripletProductionNperms(argsIn.lnOut) :
          SpinorIndex(p) = SDMIndex
(***************************************************************************)
(* A matrix passed as its own argument.  The arguments of operator*=,      *)
(* SimTransform and UniTransform are references, so the receiver can be    *)
(* the argument; the result is compared with that of the same call on a    *)
(* distinct matrix with the entries the receiver had before the call.      *)
(***************************************************************************)
\* C28: operator*=(source) leaves the receiver equal to the matrix product
\* (receiver before the call)*(source before the call) for every pair of
\* matrices, also when source is the receiver itself: A *= A yields A*A
C28_MulAssignIsProduct ==
    Transformed("MulAssign") \/ Transformed("MulAssign(*this)") =>
        fMatrix = Product(last.pre, last.arg)

\* C29: SimTransform(m) with m the receiver itself leaves what it leaves
\* with m a distinct matrix of equal entries, which is A*A*A^-1 = A for a
\* non-singular A; and so does UniTransform
C29_SelfTransformAsDistinct ==
    /\ Transformed("SimTransform(*this)") =>
          /\ fMatrix = SimTransform(last.pre, last.arg, fResolution)
          /\ Invertible(last.pre) => fMatrix = last.pre
    /\ Transformed("UniTransform(*this)") =>
          fMatrix = UniTransform(last.pre, last.arg)

====
